---------------------------- MODULE Spec2Model ----------------------------
(***************************************************************************)
(* A model of the multi-agent content pipeline: the coordinator's plan,    *)
(* validation and final report (agents/coordinator.py), the research stage *)
(* (agents/researcher.py), the SEO stage (agents/seo_optimizer.py), the    *)
(* SEO analyzer (utils/tools.py) and the pipeline driver (app.py).         *)
(*                                                                         *)
(* Text is modelled by what the code reads of it.  For the coordinator a   *)
(* document is a sequence of whitespace-delimited tokens, each one word:   *)
(*   "w"     an ordinary word                                              *)
(*   "intro" a word holding one of 'introduction','overview','begin',      *)
(*           'start'                                                       *)
(*   "concl" a word holding one of 'conclusion','summary','final','end'    *)
(*   "#"     a markdown heading mark                                       *)
(*   "UP"    a line of one all-uppercase word (holding no marker)          *)
(* Fractions are kept exact by scaling: a name ending in 10 is ten times   *)
(* the program's value (minimum_word_count10 = 10 * 0.9 * W = 9 * W).      *)
(***************************************************************************)
EXTENDS Integers, Sequences, FiniteSets, TLC

\* Python's None is the empty tuple and a value x that may be None is <<x>>.
None == <<>>
Some(x) == <<x>>

\* An empty dict.
EmptyDict == <<>>

Tokens == {"w", "intro", "concl", "#", "UP"}

\* The 200-character windows of validate_content_quality, in tokens.
WindowTokens == 2

\* Longest document, in tokens, of the coordinator specification.
MaxTokens == 4

\* Largest target word count of the coordinator specification.
MaxTarget == 4

RECURSIVE SeqsUpTo(_, _)
SeqsUpTo(S, n) ==
    IF n = 0 THEN {<<>>}
    ELSE LET shorter == SeqsUpTo(S, n - 1)
         IN  shorter \cup {Append(s, x) : s \in {t \in shorter : Len(t) = n - 1}, x \in S}

Min(a, b) == IF a < b THEN a ELSE b
Max(a, b) == IF a > b THEN a ELSE b

---------------------------------------------------------------------------
(* agents/coordinator.py                                                   *)

\* requirements.get(key, default): an absent key is the field value None.
Get(d, key, default) == IF key \in DOMAIN d THEN d[key] ELSE default

\* _define_quality_criteria giving the range 900..1100 whatever the
\* word_count of the requirements.
_define_quality_criteria_fixed_range(requirements) ==
    [ minimum_word_count10 |-> 9000,
      maximum_word_count10 |-> 11000,
      required_keywords    |-> Get(requirements, "seo_keywords", <<>>),
      structure_requirements |->
          [has_introduction |-> TRUE, has_conclusion |-> TRUE, has_headings |-> TRUE] ]

_define_quality_criteria(requirements) ==
    [ minimum_word_count10 |-> 9 * Get(requirements, "word_count", 1000),
      maximum_word_count10 |-> 11 * Get(requirements, "word_count", 1000),
      required_keywords    |-> Get(requirements, "seo_keywords", <<>>),
      structure_requirements |->
          [has_introduction |-> TRUE, has_conclusion |-> TRUE, has_headings |-> TRUE] ]

_generate_task_sequence(requirements) ==
    << [name |-> "research",         agent |-> "researcher"],
       [name |-> "content_writing",  agent |-> "writer"],
       [name |-> "editing",          agent |-> "editor"],
       [name |-> "seo_optimization", agent |-> "seo"],
       [name |-> "final_review",     agent |-> "coordinator"] >>

\* create_content_plan taking the content type that _generate_task_sequence
\* names in its description, 'blog post', for the absent field.
create_content_plan_task_default(requirements) ==
    [ topic            |-> Get(requirements, "topic", ""),
      target_audience  |-> Get(requirements, "target_audience", "General audience"),
      word_count       |-> Get(requirements, "word_count", 1000),
      tone             |-> Get(requirements, "tone", "Professional"),
      seo_keywords     |-> Get(requirements, "seo_keywords", <<>>),
      content_type     |-> Get(requirements, "content_type", "blog post"),
      tasks            |-> _generate_task_sequence(requirements),
      quality_criteria |-> _define_quality_criteria(requirements) ]

create_content_plan(requirements) ==
    [ topic            |-> Get(requirements, "topic", ""),
      target_audience  |-> Get(requirements, "target_audience", "General audience"),
      word_count       |-> Get(requirements, "word_count", 1000),
      tone             |-> Get(requirements, "tone", "Professional"),
      seo_keywords     |-> Get(requirements, "seo_keywords", <<>>),
      content_type     |-> Get(requirements, "content_type", "Blog post"),
      tasks            |-> _generate_task_sequence(requirements),
      quality_criteria |-> _define_quality_criteria(requirements) ]

\* len(content.split())
WordCount(content) == Len(content)

\* content.lower()[:200] and content.lower()[-200:]
FirstWindow(content) == SubSeq(content, 1, Min(WindowTokens, Len(content)))
LastWindow(content) == SubSeq(content, Max(1, Len(content) - WindowTokens + 1), Len(content))

Holds(window, token) == \E i \in 1..Len(window) : window[i] = token

has_intro(content) == Holds(FirstWindow(content), "intro")
has_conclusion(content) == Holds(LastWindow(content), "concl")
has_headings(content) == Holds(content, "#") \/ Holds(content, "UP")

\* The two entries of validation_results['checks'].
Checks(content, plan) ==
    LET criteria  == Get(plan, "quality_criteria", EmptyDict)
        wc        == WordCount(content)
    IN  [ word_count |->
              [ current |-> wc,
                passed  |-> /\ Get(criteria, "minimum_word_count10", 9000) <= 10 * wc
                            /\ 10 * wc <= Get(criteria, "maximum_word_count10", 11000) ],
          structure |->
              [ has_introduction |-> has_intro(content),
                has_conclusion   |-> has_conclusion(content),
                has_headings     |-> has_headings(content) ] ]
\* check.get('passed', True) taking a check without 'passed' for passed
\* only when every flag it holds is true.
CheckPassedByFlags(check) ==
    IF "passed" \in DOMAIN check THEN check.passed
    ELSE \A flag \in DOMAIN check : check[flag] = TRUE

\* check.get('passed', True)
CheckPassed(check) == IF "passed" \in DOMAIN check THEN check.passed ELSE TRUE

\* sum(1 for check in checks.values() if ... check.get('passed', True))
PassedChecks(checks) == Cardinality({k \in DOMAIN checks : CheckPassed(checks[k])})

ImprovementsNeeded(content, plan) ==
    LET criteria  == Get(plan, "quality_criteria", EmptyDict)
        min_words == Get(criteria, "minimum_word_count10", 9000)
        max_words == Get(criteria, "maximum_word_count10", 11000)
        wc        == WordCount(content)
    IN  IF Checks(content, plan).word_count.passed THEN <<>>
        ELSE IF 10 * wc < min_words
             THEN << [kind |-> "too short", words |-> wc, change10 |-> min_words - 10 * wc] >>
             ELSE << [kind |-> "too long", words |-> wc, change10 |-> 10 * wc - max_words] >>

validate_content_quality(content, plan) ==
    LET checks       == Checks(content, plan)
        total_checks == Cardinality(DOMAIN checks)
        score        == IF total_checks > 0
                        THEN (PassedChecks(checks) * 100) \div total_checks
                        ELSE 0
        passed       == total_checks > 0 /\ score >= 80
        improvements == ImprovementsNeeded(content, plan)
    IN  [ overall_score       |-> score,
          passed              |-> passed,
          checks              |-> checks,
          feedback            |->
              IF passed THEN << [kind |-> "ready for publication"] >>
              ELSE << [kind |-> "needs improvements"] >> \o improvements,
          improvements_needed |-> improvements ]


\* _generate_final_recommendations with the SEO stage's recommendations
\* put before the validation's.
_generate_final_recommendations_seo_first(validation, agent_outputs) ==
    LET seo_output == Get(agent_outputs, "seo", EmptyDict)
        score      == Get(validation, "overall_score", 0)
    IN  (IF "recommendations" \in DOMAIN seo_output
         THEN seo_output.recommendations ELSE <<>>)
        \o Get(validation, "improvements_needed", <<>>)
        \o << IF score >= 90 THEN [kind |-> "featured"]
              ELSE IF score >= 80 THEN [kind |-> "minor improvements"]
              ELSE [kind |-> "significant improvements"] >>

\* agent_outputs.get('seo', {}) and the like: a missing stage is the empty dict.
_generate_final_recommendations(validation, agent_outputs) ==
    LET seo_output == Get(agent_outputs, "seo", EmptyDict)
        score      == Get(validation, "overall_score", 0)
    IN  Get(validation, "improvements_needed", <<>>)
        \o (IF "recommendations" \in DOMAIN seo_output
            THEN seo_output.recommendations ELSE <<>>)
        \o << IF score >= 90 THEN [kind |-> "featured"]
              ELSE IF score >= 80 THEN [kind |-> "minor improvements"]
              ELSE [kind |-> "significant improvements"] >>

_suggest_next_steps(validation) ==
    IF Get(validation, "passed", FALSE)
    THEN << "Content is ready for publication",
            "Schedule social media promotion",
            "Consider internal linking opportunities",
            "Monitor performance metrics after publication" >>
    ELSE << "Address quality issues identified in validation",
            "Re-run content through editing agent if needed",
            "Consider additional research if content gaps exist",
            "Re-validate content after improvements" >>

create_final_report(content, plan, agent_outputs) ==
    LET validation == validate_content_quality(content, plan)
    IN  [ content_metadata    |-> [ topic           |-> Get(plan, "topic", None),
                                    word_count      |-> WordCount(content),
                                    target_audience |-> Get(plan, "target_audience", None),
                                    content_type    |-> Get(plan, "content_type", None) ],
          quality_assessment  |-> validation,
          agent_contributions |->
              [ research |-> Get(agent_outputs, "research", EmptyDict),
                writing  |-> Get(agent_outputs, "writing", EmptyDict),
                editing  |-> Get(agent_outputs, "editing", EmptyDict),
                seo      |-> Get(agent_outputs, "seo", EmptyDict) ],
          seo_summary         |-> Get(Get(agent_outputs, "seo", EmptyDict), "seo_score", 0),
          recommendations     |-> _generate_final_recommendations(validation, agent_outputs),
          next_steps          |-> _suggest_next_steps(validation) ]

---------------------------------------------------------------------------
(* State.  Each component is exercised by a specification of its own; the  *)
(* variables of the other components stay at their initial values.         *)

VARIABLES
    \* the coordinator, called on its own
    co_pc,            \* "new", "planned", "validated", "reported"
    co_requirements,  \* the requirements handed to create_content_plan
    co_content,       \* the content handed to validate_content_quality
    co_plan,          \* the plan create_content_plan returned
    co_validation,    \* the result validate_content_quality returned
    co_report         \* the arguments and the result of create_final_report

coVars == <<co_pc, co_requirements, co_content, co_plan, co_validation, co_report>>

VARIABLES
    \* the pipeline driver, app.py
    pc,               \* where run_content_pipeline stands; "idle" between runs
    current_step,     \* st.session_state.current_step
    pipeline_results, \* st.session_state.pipeline_results
    progress_bar,     \* ten times the value last given to progress_bar.progress
    status_text,      \* the stage named by the last status_text.text
    messages,         \* what the run showed with st.error / st.success
    locals,           \* the local variables of run_content_pipeline
    results,          \* its local dict `results`
    calls,            \* the agent operations this run has called, with their arguments
    raised_in         \* the operation the run's exception came from, "" if none

appVars == <<pc, current_step, pipeline_results, progress_bar, status_text,
             messages, locals, results, calls, raised_in>>

VARIABLES
    \* the research stage, called on its own
    re_pc,            \* "new", "searching", "compiled"
    re_topic,         \* the topic handed to conduct_research
    re_requirements,  \* the requirements handed to conduct_research
    queries,          \* the queries _generate_research_queries returned
    searches,         \* the calls of web_search_tool.run, with their arguments
    returned,         \* what web_search_tool.run returned, query by query
    search_results,   \* the local list search_results
    research_output   \* the dict conduct_research returned

reVars == <<re_pc, re_topic, re_requirements, queries, searches, returned,
            search_results, research_output>>

VARIABLES
    \* the SEO analyzer, called on its own
    an_pc,            \* "new", "done"
    an_content,       \* the content handed to SEOAnalyzerTool.run
    an_keywords,      \* the target_keywords handed to it, None if not given
    an_analysis       \* the dict it returned

anVars == <<an_pc, an_content, an_keywords, an_analysis>>

VARIABLES
    \* the SEO stage, called on its own
    seo_pc,            \* the statement optimize_content stands at
    seo_content,       \* the content handed to optimize_content
    seo_requirements,  \* the requirements handed to it
    target_keywords,   \* its local target_keywords
    seo_analysis,      \* its local seo_analysis
    optimized_content, \* its local optimized_content, step by step
    meta_tags,         \* its local meta_tags
    final_analysis,    \* its local final_analysis
    seo_output         \* the dict optimize_content returned

seoVars == <<seo_pc, seo_content, seo_requirements, target_keywords, seo_analysis,
             optimized_content, meta_tags, final_analysis, seo_output>>

VARIABLES
    \* the editing stage, called on its own and then again on its own output
    ed_pc,             \* the statement edit_content stands at
    ed_content,        \* the content handed to edit_content
    ed_requirements,   \* the requirements handed to it
    quality_analysis,  \* its local quality_analysis
    improved_content,  \* the local improved_content of _improve_content, step by step
    editing_outputs    \* the dicts edit_content has returned, call by call

edVars == <<ed_pc, ed_content, ed_requirements, quality_analysis, improved_content,
            editing_outputs>>

VARIABLES
    \* the writing stage, called on its own
    wr_pc,             \* the statement create_content stands at
    wr_requirements,   \* the requirements handed to create_content
    wr_research,       \* the research_output handed to it
    wr_plan,           \* its local content_plan
    wr_sections,       \* the local sections of _generate_content_sections
    wr_written,        \* the number of outline entries its loop has been through
    writing_output     \* the dict create_content returned

wrVars == <<wr_pc, wr_requirements, wr_research, wr_plan, wr_sections, wr_written,
            writing_output>>

vars == <<coVars, appVars, reVars, anVars, seoVars, edVars, wrVars>>

\* The variables a component leaves alone.
notCo == <<appVars, reVars, anVars, seoVars, edVars, wrVars>>
notApp == <<coVars, reVars, anVars, seoVars, edVars, wrVars>>
notRe == <<coVars, appVars, anVars, seoVars, edVars, wrVars>>
notAn == <<coVars, appVars, reVars, seoVars, edVars, wrVars>>
notSeo == <<coVars, appVars, reVars, anVars, edVars, wrVars>>
notEd == <<coVars, appVars, reVars, anVars, seoVars, wrVars>>
notWr == <<coVars, appVars, reVars, anVars, seoVars, edVars>>

CoIdle ==
    /\ co_pc = "off"
    /\ co_requirements = None
    /\ co_content = None
    /\ co_plan = None
    /\ co_validation = None
    /\ co_report = None

AppIdle ==
    /\ pc = "off"
    /\ current_step = 0
    /\ pipeline_results = None
    /\ progress_bar = 0
    /\ status_text = ""
    /\ messages = <<>>
    /\ locals = EmptyDict
    /\ results = EmptyDict
    /\ calls = <<>>
    /\ raised_in = ""

ReIdle ==
    /\ re_pc = "off"
    /\ re_topic = ""
    /\ re_requirements = None
    /\ queries = <<>>
    /\ searches = <<>>
    /\ returned = <<>>
    /\ search_results = <<>>
    /\ research_output = None

AnIdle ==
    /\ an_pc = "off"
    /\ an_content = <<>>
    /\ an_keywords = None
    /\ an_analysis = None

SeoIdle ==
    /\ seo_pc = "off"
    /\ seo_content = <<>>
    /\ seo_requirements = None
    /\ target_keywords = <<>>
    /\ seo_analysis = None
    /\ optimized_content = <<>>
    /\ meta_tags = None
    /\ final_analysis = None
    /\ seo_output = None

EdIdle ==
    /\ ed_pc = "off"
    /\ ed_content = <<>>
    /\ ed_requirements = None
    /\ quality_analysis = None
    /\ improved_content = <<>>
    /\ editing_outputs = <<>>

WrIdle ==
    /\ wr_pc = "off"
    /\ wr_requirements = None
    /\ wr_research = None
    /\ wr_plan = None
    /\ wr_sections = <<>>
    /\ wr_written = 0
    /\ writing_output = None

\* Every component but the one started.
OthersIdle(started) ==
    /\ started # "editor" => EdIdle
    /\ started # "writer" => WrIdle
    /\ started # "coordinator" => CoIdle
    /\ started # "app" => AppIdle
    /\ started # "research" => ReIdle
    /\ started # "analyzer" => AnIdle
    /\ started # "seo" => SeoIdle

---------------------------------------------------------------------------
(* The coordinator on its own: create_content_plan, then                   *)
(* validate_content_quality, on every requirements and content in bounds.  *)

CoContents == SeqsUpTo(Tokens, MaxTokens)

CoRequirements ==
    {[topic |-> "T", word_count |-> w] : w \in 1..MaxTarget}
        \cup {[topic |-> "T"]}

CoInit ==
    /\ OthersIdle("coordinator")
    /\ co_pc = "new"
    /\ co_requirements \in CoRequirements
    /\ co_content \in CoContents
    /\ co_plan = None
    /\ co_validation = None
    /\ co_report = None

CoCreatePlan ==
    /\ UNCHANGED notCo
    /\ co_pc = "new"
    /\ co_plan' = create_content_plan(co_requirements)
    /\ co_pc' = "planned"
    /\ UNCHANGED <<co_requirements, co_content, co_validation, co_report>>

CoValidate ==
    /\ UNCHANGED notCo
    /\ co_pc = "planned"
    /\ co_validation' = validate_content_quality(co_content, co_plan)
    /\ co_pc' = "validated"
    /\ UNCHANGED <<co_requirements, co_content, co_plan, co_report>>

CoNext == CoCreatePlan \/ CoValidate

SpecCoordinator == CoInit /\ [][CoNext]_vars

---------------------------------------------------------------------------
(* The pipeline driver, app.py run_content_pipeline.  The four stages are  *)
(* called through their interfaces: what a stage returns is drawn from a   *)
(* small set of outputs, and a call may raise instead of returning.  The   *)
(* coordinator's two operations are the ones modelled above.               *)

\* d[key] = value
Assign(d, key, value) == (key :> value) @@ d

\* Documents the stages hand on: short, in range and long for the targets
\* below, with and without the markers validate_content_quality looks for.
StageContents ==
    { <<"#", "intro", "concl">>,
      <<"#", "intro", "w", "concl">>,
      <<"w", "w", "w", "w", "w">> }

\* requirements as render_content_creation_tab builds them: every key set.
AppRequirements ==
    { [ topic |-> "T", content_type |-> "Blog post", word_count |-> w,
        target_audience |-> "General audience", tone |-> "Professional",
        seo_keywords |-> <<"k1", "k2">> ] : w \in {3, 4} }

\* str(e) of the exceptions a call may raise.
ExceptionTexts == {"e1", "e2"}

ResearchOutputs(topic, requirements) ==
    { [ topic |-> topic, source_references |-> n ] : n \in {0, 3} }

WriterOutputs(research_data, requirements) ==
    { [ content |-> c, word_count |-> WordCount(c) ] : c \in StageContents }

EditorOutputs(content, requirements) ==
    { [ original_content |-> content, edited_content |-> c, final_quality_score |-> q ]
        : c \in StageContents, q \in {40, 90} }

SEOOutputs(content, requirements) ==
    { [ original_content  |-> content,
        optimized_content |-> c,
        seo_score         |-> f.seo_score,
        recommendations   |-> f.recommendations,
        meta_tags         |-> [keywords |-> Get(requirements, "seo_keywords", <<>>)] ]
        : c \in StageContents,
          f \in { [seo_score |-> 100, recommendations |-> <<>>],
                  [seo_score |-> 65,
                   recommendations |-> << [kind |-> "missing keywords"],
                                          [kind |-> "too few words"] >>] } }

\* The operations in the order run_content_pipeline calls them.
Operations ==
    << "create_content_plan", "conduct_research", "create_content",
       "edit_content", "optimize_content", "create_final_report" >>

\* The pc at which each operation is called, and the operation called there.
OperationAt ==
    [ plan |-> "create_content_plan", research |-> "conduct_research",
      writing |-> "create_content", editing |-> "edit_content",
      seo |-> "optimize_content", report |-> "create_final_report" ]

\* The arguments the driver hands each operation.
PlanArgs(l) == << l.requirements >>
ResearchArgs(l) == << l.requirements.topic, l.requirements >>
WritingArgs(l) == << l.research_output, l.requirements >>
EditingArgs(l) == << l.writer_output.content, l.requirements, l.writer_output >>
\* A driver that optimizes the writer's draft instead of the edited text.
SEOArgsFromDraft(l) == << l.writer_output.content, l.requirements, l.editor_output >>

SEOArgs(l) == << l.editor_output.edited_content, l.requirements, l.editor_output >>
ReportArgs(l) ==
    << l.seo_output.optimized_content, l.plan,
       [ research |-> l.research_output, writing |-> l.writer_output,
         editing |-> l.editor_output, seo |-> l.seo_output ] >>

Called(op, args) == calls' = Append(calls, [op |-> op, args |-> args])

AppInit ==
    /\ OthersIdle("app")
    /\ pc = "idle"
    /\ current_step = 0
    /\ pipeline_results = None
    /\ progress_bar = 0
    /\ status_text = ""
    /\ messages = <<>>
    /\ locals = EmptyDict
    /\ results = EmptyDict
    /\ calls = <<>>
    /\ raised_in = ""

\* The form is submitted with a topic: the page is drawn anew and
\* run_content_pipeline(requirements) starts (lines 171-203).
Submit ==
    /\ pc = "idle"
    /\ \E requirements \in AppRequirements :
          locals' = [requirements |-> requirements]
    /\ pc' = "construct"
    /\ progress_bar' = 0
    /\ status_text' = ""
    /\ messages' = <<>>
    /\ results' = EmptyDict
    /\ calls' = <<>>
    /\ raised_in' = ""
    /\ UNCHANGED <<current_step, pipeline_results, notApp>>

\* Lines 207-213: the five agents are built and results = {}.
Construct ==
    /\ pc = "construct"
    /\ results' = EmptyDict
    /\ pc' = "plan_begin"
    /\ UNCHANGED <<current_step, pipeline_results, progress_bar, status_text,
                   messages, locals, calls, raised_in, notApp>>

\* The lines before each call: current_step, the progress bar, the status.
Announce(at, next, step, progress) ==
    /\ pc = at
    /\ current_step' = step
    /\ progress_bar' = progress
    /\ status_text' = next
    /\ pc' = next
    /\ UNCHANGED <<pipeline_results, messages, locals, results, calls, raised_in, notApp>>

AnnouncePlan == Announce("plan_begin", "plan", 1, 1)
AnnounceResearch == Announce("research_begin", "research", 2, 3)
AnnounceWriting == Announce("writing_begin", "writing", 3, 5)
AnnounceEditing == Announce("editing_begin", "editing", 4, 7)
AnnounceSEO == Announce("seo_begin", "seo", 5, 9)

\* Lines 261-262: the final review has no step of its own.
AnnounceReport ==
    /\ pc = "report_begin"
    /\ progress_bar' = 10
    /\ status_text' = "report"
    /\ pc' = "report"
    /\ UNCHANGED <<current_step, pipeline_results, messages, locals, results,
                   calls, raised_in, notApp>>

\* A driver that ends the run when the editor scores the text below 50.
ReturnedUnlessPoor(name, key, value, next) ==
    /\ locals' = Assign(locals, name, value)
    /\ results' = Assign(results, key, value)
    /\ pc' = IF Get(value, "final_quality_score", 100) < 50 THEN "idle" ELSE next
    /\ UNCHANGED <<current_step, pipeline_results, progress_bar, status_text,
                   messages, raised_in, notApp>>

\* A call returned `value`: it is bound to the local `name` and stored in
\* results[key].
Returned(name, key, value, next) ==
    /\ locals' = Assign(locals, name, value)
    /\ results' = Assign(results, key, value)
    /\ pc' = next
    /\ UNCHANGED <<current_step, pipeline_results, progress_bar, status_text,
                   messages, raised_in, notApp>>

CallPlan ==
    /\ pc = "plan"
    /\ Called("create_content_plan", PlanArgs(locals))
    /\ Returned("plan", "plan", create_content_plan(PlanArgs(locals)[1]), "research_begin")

CallResearch ==
    /\ pc = "research"
    /\ Called("conduct_research", ResearchArgs(locals))
    /\ \E out \in ResearchOutputs(ResearchArgs(locals)[1], ResearchArgs(locals)[2]) :
          Returned("research_output", "research", out, "writing_begin")

CallWriting ==
    /\ pc = "writing"
    /\ Called("create_content", WritingArgs(locals))
    /\ \E out \in WriterOutputs(WritingArgs(locals)[1], WritingArgs(locals)[2]) :
          Returned("writer_output", "writing", out, "editing_begin")

CallEditing ==
    /\ pc = "editing"
    /\ Called("edit_content", EditingArgs(locals))
    /\ \E out \in EditorOutputs(EditingArgs(locals)[1], EditingArgs(locals)[2]) :
          Returned("editor_output", "editing", out, "seo_begin")

CallSEO ==
    /\ pc = "seo"
    /\ Called("optimize_content", SEOArgs(locals))
    /\ \E out \in SEOOutputs(SEOArgs(locals)[1], SEOArgs(locals)[2]) :
          Returned("seo_output", "seo", out, "report_begin")

\* Lines 264-276.
CallReport ==
    /\ pc = "report"
    /\ Called("create_final_report", ReportArgs(locals))
    /\ LET a == ReportArgs(locals)
           final_report == create_final_report(a[1], a[2], a[3])
       IN  /\ locals' = Assign(locals, "final_report", final_report)
           /\ results' =
                Assign(Assign(Assign(results, "final_report", final_report),
                              "final_content", locals.seo_output.optimized_content),
                       "meta_tags", locals.seo_output.meta_tags)
    /\ pc' = "store"
    /\ UNCHANGED <<current_step, pipeline_results, progress_bar, status_text,
                   messages, raised_in, notApp>>

\* What st.session_state.pipeline_results holds after line 279.
Stored(r) == Some(r)

\* Lines 279-298: the results are stored, the step is reset, success is shown
\* and run_content_pipeline returns.
Store ==
    /\ pc = "store"
    /\ pipeline_results' = Stored(results)
    /\ current_step' = 0
    /\ messages' = Append(messages, [kind |-> "success", text |-> ""])
    /\ pc' = "idle"
    /\ locals' = EmptyDict
    /\ results' = EmptyDict
    /\ calls' = <<>>
    /\ UNCHANGED <<progress_bar, status_text, raised_in, notApp>>

\* An except block that keeps what the run had gathered.
AfterFailureKeepsPartial(before, partial) == Some(partial)

\* What the except block leaves in st.session_state.pipeline_results.
AfterFailure(before, partial) == before
\* An except block without line 302: the step stays where the run failed.
ExceptHandlerKeepsStep ==
    /\ pc \in {"construct"} \cup DOMAIN OperationAt
    /\ \E e \in ExceptionTexts :
          messages' = Append(messages, [kind |-> "error", text |-> e])
    /\ raised_in' = IF pc = "construct" THEN "constructors" ELSE OperationAt[pc]
    /\ pipeline_results' = AfterFailure(pipeline_results, results)
    /\ pc' = "idle"
    /\ locals' = EmptyDict
    /\ results' = EmptyDict
    /\ calls' = <<>>
    /\ UNCHANGED <<current_step, progress_bar, status_text, notApp>>

\* Lines 300-302: the agents' constructors or a call raised e.  The error is
\* shown, the step is reset and run_content_pipeline returns: its locals,
\* the partial `results` among them, are gone.
ExceptHandler ==
    /\ pc \in {"construct"} \cup DOMAIN OperationAt
    /\ \E e \in ExceptionTexts :
          messages' = Append(messages, [kind |-> "error", text |-> e])
    /\ raised_in' = IF pc = "construct" THEN "constructors" ELSE OperationAt[pc]
    /\ current_step' = 0
    /\ pipeline_results' = AfterFailure(pipeline_results, results)
    /\ pc' = "idle"
    /\ locals' = EmptyDict
    /\ results' = EmptyDict
    /\ calls' = <<>>
    /\ UNCHANGED <<progress_bar, status_text, notApp>>

Next ==
    \/ Submit
    \/ Construct
    \/ AnnouncePlan
    \/ CallPlan
    \/ AnnounceResearch
    \/ CallResearch
    \/ AnnounceWriting
    \/ CallWriting
    \/ AnnounceEditing
    \/ CallEditing
    \/ AnnounceSEO
    \/ CallSEO
    \/ AnnounceReport
    \/ CallReport
    \/ Store
    \/ ExceptHandler

Spec == AppInit /\ [][Next]_vars

---------------------------------------------------------------------------
(* Claims about the pipeline driver (Spec).                                *)

CallPcs == DOMAIN OperationAt

\* The pc a returning call leads to.
PcAfter ==
    [ plan |-> "research_begin", research |-> "writing_begin",
      writing |-> "editing_begin", editing |-> "seo_begin",
      seo |-> "report_begin", report |-> "store" ]

\* C1: in every run the operations called so far are an initial part of
\* create_content_plan, conduct_research, create_content, edit_content,
\* optimize_content, create_final_report (so none runs twice or out of order),
\* a run that reaches its end has called all six, and each call got its
\* predecessor's output: research the topic and the requirements, writing the
\* research artifact, editing writer.content, SEO editor.edited_content, the
\* final report seo.optimized_content, the plan and the four stage outputs.
C1_StagesInOrder ==
    /\ Len(calls) <= Len(Operations)
    /\ \A i \in 1..Len(calls) : calls[i].op = Operations[i]
    /\ pc = "store" => Len(calls) = Len(Operations)
    /\ \A i \in 1..Len(calls) :
          LET a == calls[i].args
          IN  /\ i = 1 => a = << locals.requirements >>
              /\ i = 2 => a = << locals.requirements.topic, locals.requirements >>
              /\ i = 3 => a = << results.research, locals.requirements >>
              /\ i = 4 => /\ a[1] = results.writing.content
                          /\ a[2] = locals.requirements
              /\ i = 5 => /\ a[1] = results.editing.edited_content
                          /\ a[2] = locals.requirements
              /\ i = 6 => /\ a[1] = results.seo.optimized_content
                          /\ a[2] = results.plan
                          /\ a[3] = [ research |-> results.research,
                                      writing  |-> results.writing,
                                      editing  |-> results.editing,
                                      seo      |-> results.seo ]
    /\ "editing" \in DOMAIN results =>
          results.editing.original_content = results.writing.content
    /\ "seo" \in DOMAIN results =>
          results.seo.original_content = results.editing.edited_content

\* A finished run whose draft, edited text and optimized text all differ.
C1_Witness ==
    /\ pc = "store"
    /\ Len(calls) = 6
    /\ results.writing.content # results.editing.edited_content
    /\ results.editing.edited_content # results.seo.optimized_content
    /\ results.writing.content # results.seo.optimized_content

ErrorShown == Len(messages) = 1 /\ messages[1].kind = "error"
SuccessShown == Len(messages) = 1 /\ messages[1].kind = "success"

CompleteResults(r) ==
    /\ {"plan", "research", "writing", "editing", "seo", "final_report"} \subseteq DOMAIN r
    /\ r.final_report.agent_contributions =
          [ research |-> r.research, writing |-> r.writing,
            editing |-> r.editing, seo |-> r.seo ]

\* C2 as claimed: a run ends in success with complete stored results or in one
\* reported failure, and the reported failure identifies the stage that failed.
C2_FailureNamesStage ==
    (pc = "idle" /\ ErrorShown) =>
        /\ "stage" \in DOMAIN messages[1]
        /\ messages[1].stage = raised_in

\* C2 amended: a run ends either with the success message and stored results
\* holding the plan, the four stage outputs and the final report, or with
\* exactly one error message, which carries the exception's text only; the
\* operation that raised is the one the status line still names (none for the
\* constructors).  Once an operation has raised the run is over, so no later
\* operation is called, and pipeline_results changes only when a completed
\* run stores its results.
C2_TwoOutcomes ==
    /\ [](pc = "idle" =>
            /\ Len(messages) <= 1
            /\ SuccessShown =>
                  /\ pipeline_results # None
                  /\ CompleteResults(pipeline_results[1])
                  /\ raised_in = ""
            /\ ErrorShown =>
                  /\ DOMAIN messages[1] = {"kind", "text"}
                  /\ messages[1].text \in ExceptionTexts
                  /\ \/ raised_in = "constructors" /\ status_text = ""
                     \/ status_text \in CallPcs /\ OperationAt[status_text] = raised_in)
    /\ [](pc # "idle" => messages = <<>> /\ raised_in = "")
    /\ [][raised_in' # raised_in /\ raised_in' # ""
            => pc' = "idle" /\ ErrorShown' /\ pipeline_results' = pipeline_results]_vars
    /\ [][pipeline_results' # pipeline_results
            => pc = "store" /\ SuccessShown' /\ pipeline_results' = Some(results)]_vars

\* A run that failed in the SEO stage after an earlier run had stored results.
C2_Witness ==
    /\ pc = "idle"
    /\ ErrorShown
    /\ raised_in = "optimize_content"
    /\ pipeline_results # None

\* C3: whatever a stage returns (any word count, editor score or SEO score),
\* the driver goes on to the next stage, and the final report of a finished
\* run holds the validation of the final content in quality_assessment, the
\* validation's findings and the SEO stage's recommendations in
\* recommendations, and the SEO score in seo_summary.
C3_QualityNeverStops ==
    /\ [][Len(calls') = Len(calls) + 1 => pc \in CallPcs /\ pc' = PcAfter[pc]]_vars
    /\ [](pc = "store" =>
            LET report == results.final_report
                final  == results.seo.optimized_content
                v      == validate_content_quality(final, results.plan)
            IN  /\ results.final_content = final
                /\ report.quality_assessment = v
                /\ report.quality_assessment.checks.word_count.current = WordCount(final)
                /\ report.seo_summary = results.seo.seo_score
                /\ \A i \in 1..Len(v.improvements_needed) :
                      report.recommendations[i] = v.improvements_needed[i]
                /\ \A i \in 1..Len(results.seo.recommendations) :
                      report.recommendations[Len(v.improvements_needed) + i]
                          = results.seo.recommendations[i]
                /\ Len(report.recommendations)
                      = Len(v.improvements_needed) + Len(results.seo.recommendations) + 1)

\* A finished run whose every quality result was poor.
C3_Witness ==
    /\ pc = "store"
    /\ ~results.final_report.quality_assessment.passed
    /\ ~results.final_report.quality_assessment.checks.word_count.passed
    /\ results.editing.final_quality_score < 50
    /\ results.seo.seo_score < 70
    /\ Len(results.final_report.recommendations) = 4

(***************************************************************************)
(* Claims about the coordinator's validation (SpecCoordinator).            *)
(***************************************************************************)

Count(b) == IF b THEN 1 ELSE 0

\* C5: the score of a validation is 100 times the share of its checks that
\* passed, where the checks are the word-count check and the structure
\* heuristics (introduction marker, conclusion marker, headings), and passed
\* is true exactly when the score is at least 80.  The structure heuristics
\* are counted either one by one (four checks) or as one check that passes
\* when all three hold (two checks).
C5_ScoreCountsStructure ==
    co_pc = "validated" =>
        LET c       == co_validation.checks
            words   == Count(c.word_count.passed)
            each    == Count(c.structure.has_introduction)
                         + Count(c.structure.has_conclusion)
                         + Count(c.structure.has_headings)
            asOne   == Count(each = 3)
        IN  /\ \/ co_validation.overall_score = (100 * (words + each)) \div 4
               \/ co_validation.overall_score = (100 * (words + asOne)) \div 2
            /\ co_validation.passed <=> co_validation.overall_score >= 80

\* The positions of the last 200 characters of the content.
LastWindowPositions(content) ==
    { i \in 1..Len(content) : i > Len(content) - WindowTokens }

\* The content with the word at position i holding a conclusion marker.
WithConclusionAt(content, i) == [content EXCEPT ![i] = "concl"]

\* C6: for content with no conclusion marker in its last 200 characters the
\* validation sets checks.structure.has_conclusion to False, and its score is
\* strictly lower than the score of the content that differs only in one
\* ordinary word of those characters holding the marker.
C6_MissingConclusionLowersScore ==
    (co_pc = "validated" /\ ~has_conclusion(co_content)) =>
        /\ co_validation.checks.structure.has_conclusion = FALSE
        /\ \A i \in LastWindowPositions(co_content) :
              co_content[i] = "w" =>
                  validate_content_quality(WithConclusionAt(co_content, i),
                                           co_plan).overall_score
                      > co_validation.overall_score

---------------------------------------------------------------------------
(* agents/researcher.py.  A search result is a dict.  Its texts are        *)
(* modelled by what the stage reads of them:                               *)
(*   title    text; quality: it holds one of 'research','study',           *)
(*            'analysis','report','official'; recent: it holds one of the  *)
(*            recency indicators                                           *)
(*   url      text; high / medium: it holds one of the high / medium       *)
(*            credibility domains                                          *)
(*   snippet  text; first200: its first 200 characters; facts: its sentences longer than 50 characters that    *)
(*            hold a verb word; statistics: its matches of the number      *)
(*            patterns; quoted: its quoted parts longer than 20            *)
(*            characters; words: its words longer than 3 characters that   *)
(*            are not common words; recent; contrast: it holds 'however'   *)
(*            or 'but'                                                     *)
(* A formatted string is the tuple of its parts.  Credibility scores are   *)
(* kept in tenths and the rounded overall score in hundredths.             *)

\* seq[:], the whole list.
TakeAll(seq, n) == seq

\* seq[:n]
Take(seq, n) == SubSeq(seq, 1, Min(n, Len(seq)))

RECURSIVE Concat(_)
Concat(seqs) == IF seqs = <<>> THEN <<>> ELSE Head(seqs) \o Concat(Tail(seqs))

\* sum(seq), adding the halves of seq.
RECURSIVE Sum(_)
Sum(seq) ==
    IF seq = <<>> THEN 0
    ELSE IF Len(seq) = 1 THEN seq[1]
    ELSE LET half == Len(seq) \div 2
         IN  Sum(SubSeq(seq, 1, half)) + Sum(SubSeq(seq, half + 1, Len(seq)))

EmptyTitle == [text |-> "", quality |-> FALSE, recent |-> FALSE]
UnknownTitle == [text |-> "Unknown Title", quality |-> FALSE, recent |-> FALSE]
EmptyUrl == [text |-> "", high |-> FALSE, medium |-> FALSE]
EmptySnippet ==
    [ text |-> "", first200 |-> "", facts |-> <<>>, statistics |-> <<>>, quoted |-> <<>>,
      words |-> <<>>, recent |-> FALSE, contrast |-> FALSE ]

\* str.lower on the content types, keywords and topics in use.
Lower(s) ==
    CASE s = "Blog post"   -> "blog post"
      [] s = "Guide"       -> "guide"
      [] s = "Review"      -> "review"
      [] s = "Remote Work" -> "remote work"
      [] s = "Remote work" -> "remote work"
      [] s = "Untitled"    -> "untitled"
      [] OTHER             -> s

\* _generate_research_queries with the keyword queries put before the
\* audience queries.
_generate_research_queries_keywords_first(topic, requirements) ==
    LET base_queries == << <<topic>>,
                           <<topic, "definition">>,
                           <<topic, "benefits">>,
                           <<topic, "challenges">>,
                           <<topic, "statistics">>,
                           <<topic, "recent developments">> >>
        audience == Get(requirements, "target_audience", "")
        forAudience == IF audience # ""
                       THEN << <<topic, "for", audience>>,
                               <<topic, audience, "case studies">> >>
                       ELSE <<>>
        keywords == Get(requirements, "seo_keywords", <<>>)
        top == Take(keywords, 3)
        forKeywords == [i \in 1..Len(top) |-> <<top[i], topic>>]
    IN  Take(base_queries \o forKeywords \o forAudience, 8)
\* _generate_research_queries without the cut to 8 queries at its end.
_generate_research_queries_uncut(topic, requirements) ==
    LET base_queries == << <<topic>>,
                           <<topic, "definition">>,
                           <<topic, "benefits">>,
                           <<topic, "challenges">>,
                           <<topic, "statistics">>,
                           <<topic, "recent developments">> >>
        audience == Get(requirements, "target_audience", "")
        forAudience == IF audience # ""
                       THEN << <<topic, "for", audience>>,
                               <<topic, audience, "case studies">> >>
                       ELSE <<>>
        keywords == Get(requirements, "seo_keywords", <<>>)
        top == Take(keywords, 3)
        forKeywords == [i \in 1..Len(top) |-> <<top[i], topic>>]
    IN  base_queries \o forAudience \o forKeywords

_generate_research_queries(topic, requirements) ==
    LET base_queries == << <<topic>>,
                           <<topic, "definition">>,
                           <<topic, "benefits">>,
                           <<topic, "challenges">>,
                           <<topic, "statistics">>,
                           <<topic, "recent developments">> >>
        audience == Get(requirements, "target_audience", "")
        forAudience == IF audience # ""
                       THEN << <<topic, "for", audience>>,
                               <<topic, audience, "case studies">> >>
                       ELSE <<>>
        keywords == Get(requirements, "seo_keywords", <<>>)
        top == Take(keywords, 3)
        forKeywords == [i \in 1..Len(top) |-> <<top[i], topic>>]
    IN  Take(base_queries \o forAudience \o forKeywords, 8)

IsValidResult(r) == "error" \notin DOMAIN r

\* Every result, those of failed searches included.
AllResults(all_results) == all_results

ValidResults(all_results) == SelectSeq(all_results, IsValidResult)

Snippets(rs) ==
    [i \in 1..Len(rs) |-> Get(rs[i], "snippet", EmptySnippet)]

\* The words of seq without repetition, in the order of first occurrence.
RECURSIVE Distinct(_)
Distinct(seq) ==
    IF seq = <<>> THEN <<>>
    ELSE LET front == Distinct(SubSeq(seq, 1, Len(seq) - 1))
             last  == seq[Len(seq)]
         IN  IF \E i \in 1..Len(front) : front[i] = last
             THEN front ELSE Append(front, last)

Occurrences(w, seq) == Cardinality({i \in 1..Len(seq) : seq[i] = w})

\* sorted(..., key, reverse=True): descending by key, equal keys in their
\* original order.  keys[i] is the key of seq[i].
SortDescending(seq, keys) ==
    LET before(i, j) == keys[i] > keys[j] \/ (keys[i] = keys[j] /\ i < j)
        place(i) == 1 + Cardinality({j \in 1..Len(seq) : before(j, i)})
    IN  [k \in 1..Len(seq) |-> seq[CHOOSE i \in 1..Len(seq) : place(i) = k]]

_extract_main_themes(words) ==
    LET distinct == Distinct(words)
        word_freq == [i \in 1..Len(distinct) |-> Occurrences(distinct[i], words)]
        top_words == Take(SortDescending(distinct, word_freq), 5)
    IN  IF top_words # <<>> THEN top_words
        ELSE <<"General information and insights">>

_create_research_summary(topic, all_results) ==
    LET valid_results == ValidResults(all_results)
        combined_text == Concat([i \in 1..Min(10, Len(valid_results)) |->
                                    Snippets(valid_results)[i].words])
    IN  IF valid_results = <<>>
        THEN [ text |-> "Limited research available", topic |-> topic ]
        ELSE [ text       |-> "Research Summary",
               topic      |-> topic,
               sources    |-> Len(valid_results),
               themes     |-> _extract_main_themes(combined_text),
               confidence |-> IF Len(valid_results) >= 5 THEN "High"
                              ELSE IF Len(valid_results) >= 3 THEN "Medium"
                              ELSE "Low" ]

_extract_key_facts(all_results) ==
    LET valid_results == ValidResults(all_results)
        first == Take(valid_results, 5)
    IN  Take(Concat([i \in 1..Len(first) |-> Snippets(first)[i].facts]), 5)

_extract_statistics(all_results) ==
    LET valid_results == ValidResults(all_results)
        found(i) == LET snippet == Snippets(valid_results)[i]
                    IN  [k \in 1..Len(snippet.statistics) |->
                            [ match |-> snippet.statistics[k], context |-> snippet.text ]]
    IN  Take(Concat([i \in 1..Len(valid_results) |-> found(i)]), 3)

_extract_quotes(all_results) ==
    LET valid_results == ValidResults(all_results)
        found(i) == LET snippet == Snippets(valid_results)[i]
                        title   == Get(valid_results[i], "title", EmptyTitle)
                    IN  [k \in 1..Len(snippet.quoted) |->
                            [ quote |-> snippet.quoted[k], title |-> title.text ]]
    IN  Take(Concat([i \in 1..Len(valid_results) |-> found(i)]), 3)

_assess_single_source_credibility10(source) ==
    LET url   == Get(source, "url", EmptyUrl)
        title == Get(source, "title", EmptyTitle)
        score == 5 + (IF url.high THEN 3 ELSE IF url.medium THEN 1 ELSE 0)
                   + (IF title.quality THEN 1 ELSE 0)
    IN  Min(10, score)

_compile_sources(all_results) ==
    LET valid_results == ValidResults(all_results)
        first == Take(valid_results, 5)
        sources == [i \in 1..Len(first) |->
                       [ title         |-> Get(first[i], "title", UnknownTitle).text,
                         url           |-> Get(first[i], "url", EmptyUrl).text,
                         snippet       |-> <<Get(first[i], "snippet", EmptySnippet).first200, "...">>,
                         credibility10 |-> _assess_single_source_credibility10(first[i]) ]]
    IN  SortDescending(sources, [i \in 1..Len(sources) |-> sources[i].credibility10])

_suggest_content_outline(topic, requirements) ==
    LET content_type == Get(requirements, "content_type", "blog post")
    IN  IF Lower(content_type) \in {"guide", "tutorial", "how-to"}
        THEN << <<"Introduction to", topic>>,
                <<"Prerequisites and Requirements">>,
                <<"Step-by-Step Process">>,
                <<"Best Practices">>,
                <<"Common Mistakes to Avoid">>,
                <<"Advanced Tips">>,
                <<"Conclusion and Next Steps">> >>
        ELSE IF Lower(content_type) \in {"review", "comparison"}
        THEN << <<"Overview of", topic>>,
                <<"Methodology">>,
                <<"Detailed Analysis">>,
                <<"Pros and Cons">>,
                <<"Comparisons">>,
                <<"Recommendations">>,
                <<"Final Verdict">> >>
        ELSE << <<"Introduction to", topic>>,
                <<"What is", topic, "?">>,
                <<"Key Benefits of", topic>>,
                <<"Challenges and Considerations">>,
                <<"Current Trends and Developments">>,
                <<"Practical Applications">>,
                <<"Future Outlook">>,
                <<"Conclusion">> >>

_identify_research_gaps(topic, all_results) ==
    LET valid_results == ValidResults(all_results)
        has_recent_content ==
            \E i \in 1..Len(valid_results) :
                \/ Get(valid_results[i], "snippet", EmptySnippet).recent
                \/ Get(valid_results[i], "title", EmptyTitle).recent
        has_contrast ==
            \E i \in 1..Len(valid_results) :
                Get(valid_results[i], "snippet", EmptySnippet).contrast
    IN  (IF Len(valid_results) < 3 THEN <<"Limited source diversity">> ELSE <<>>)
          \o (IF ~has_recent_content THEN <<"Lack of recent information">> ELSE <<>>)
          \o (IF ~has_contrast THEN <<"Limited perspective diversity">> ELSE <<>>)

\* round(sum10 / 10 / n, 2) in hundredths.  The quotient is a binary float,
\* so a value halfway between two hundredths rounds to either.
Round2(sum10, n) ==
    LET down == (10 * sum10) \div n
        rest == (10 * sum10) % n
    IN  IF 2 * rest < n THEN {down}
        ELSE IF 2 * rest > n THEN {down + 1}
        ELSE {down, down + 1}

\* The comparisons avg_score >= 0.8, 0.6, 0.4 on the binary float: a quotient
\* that is exactly a threshold may compare either way.
_get_credibility_assessment(sum10, n) ==
    LET band(low) == IF low THEN 1 ELSE 0
        text(b) == CASE b = 3 -> "High credibility"
                     [] b = 2 -> "Good credibility"
                     [] b = 1 -> "Medium credibility"
                     [] OTHER -> "Low credibility"
        above == band(sum10 >= 8 * n) + band(sum10 >= 6 * n) + band(sum10 >= 4 * n)
        exact == sum10 \in {8 * n, 6 * n, 4 * n}
    IN  {text(above)} \cup (IF exact THEN {text(above - 1)} ELSE {})

\* The assessments _assess_source_credibility can return.
_assess_source_credibility(all_results) ==
    LET valid_results == ValidResults(all_results)
        credibility_scores ==
            [i \in 1..Len(valid_results) |->
                _assess_single_source_credibility10(valid_results[i])]
        n == Len(credibility_scores)
    IN  IF credibility_scores = <<>>
        THEN {[ overall_score100 |-> 0, assessment |-> "No valid sources found" ]}
        ELSE {[ overall_score100 |-> rounded,
                total_sources |-> Len(valid_results),
                high_credibility_sources |->
                    Cardinality({i \in 1..n : credibility_scores[i] >= 8}),
                assessment |-> a ] :
                  rounded \in Round2(Sum(credibility_scores), n),
                  a \in _get_credibility_assessment(Sum(credibility_scores), n)}

\* The dicts conduct_research can return once its searches have returned
\* all_results in all.
conduct_research(topic, requirements, all_results) ==
    {[ topic                  |-> topic,
       research_summary       |-> _create_research_summary(topic, all_results),
       key_facts              |-> _extract_key_facts(all_results),
       statistics             |-> _extract_statistics(all_results),
       expert_quotes          |-> _extract_quotes(all_results),
       source_references      |-> _compile_sources(all_results),
       content_outline        |-> _suggest_content_outline(topic, requirements),
       research_gaps          |-> _identify_research_gaps(topic, all_results),
       credibility_assessment |-> c ] :
         c \in _assess_source_credibility(all_results)}

---------------------------------------------------------------------------
(* The research stage on its own.  The search tool is called through its   *)
(* interface: it returns a list of results or the one placeholder of a     *)
(* failed search (utils/tools.py WebSearchTool.run).                       *)

GovResult ==
    [ title   |-> [ text |-> "Agency page", quality |-> FALSE, recent |-> FALSE ],
      url     |-> [ text |-> "agency.gov/a", high |-> TRUE, medium |-> FALSE ],
      snippet |-> [ text |-> "s-gov", first200 |-> "s-gov",
                    facts |-> <<"f1", "f2", "f3">>,
                    statistics |-> <<"45%", "$1,000">>,
                    quoted |-> <<"q1", "q2">>,
                    words |-> <<"remote", "work">>,
                    recent |-> TRUE, contrast |-> FALSE ] ]

EduResult ==
    [ title   |-> [ text |-> "A study", quality |-> TRUE, recent |-> FALSE ],
      url     |-> [ text |-> "school.edu/b", high |-> TRUE, medium |-> FALSE ],
      snippet |-> [ text |-> "s-edu-long", first200 |-> "s-edu",
                    facts |-> <<"f4">>,
                    statistics |-> <<>>,
                    quoted |-> <<>>,
                    words |-> <<"work", "study", "work">>,
                    recent |-> FALSE, contrast |-> TRUE ] ]

\* A result without a snippet element: the tool fills in its placeholder.
ComResult ==
    [ title   |-> [ text |-> "Shop", quality |-> FALSE, recent |-> FALSE ],
      url     |-> [ text |-> "shop.com/c", high |-> FALSE, medium |-> TRUE ],
      snippet |-> [ text |-> "No snippet available", first200 |-> "No snippet available",
                    facts |-> <<>>, statistics |-> <<>>, quoted |-> <<>>,
                    words |-> <<"snippet", "available">>,
                    recent |-> FALSE, contrast |-> FALSE ] ]

BlogResult ==
    [ title   |-> [ text |-> "Notes", quality |-> FALSE, recent |-> FALSE ],
      url     |-> [ text |-> "notes.io/d", high |-> FALSE, medium |-> FALSE ],
      snippet |-> [ text |-> "s-blog", first200 |-> "s-blog",
                    facts |-> <<"f5">>,
                    statistics |-> <<"3 times">>,
                    quoted |-> <<"q3">>,
                    words |-> <<"notes">>,
                    recent |-> FALSE, contrast |-> FALSE ] ]

SearchFailed == << [ error |-> "Search failed" ] >>

SearchReturns ==
    { SearchFailed, <<GovResult>>, <<EduResult, ComResult, BlogResult>> }

ReRequirements ==
    { [ topic |-> "T" ],
      [ topic |-> "T", target_audience |-> "devs", content_type |-> "Guide" ],
      [ topic |-> "T", target_audience |-> "", content_type |-> "Review",
        seo_keywords |-> <<"k1", "k2">> ],
      [ topic |-> "T", target_audience |-> "devs", content_type |-> "Blog post",
        seo_keywords |-> <<"k1", "k2", "k3", "k4">> ],
      [ topic |-> "T", seo_keywords |-> <<"k1", "k2", "k3">> ] }

ReInit ==
    /\ OthersIdle("research")
    /\ re_pc = "new"
    /\ re_requirements \in ReRequirements
    /\ re_topic = re_requirements.topic
    /\ queries = <<>>
    /\ searches = <<>>
    /\ returned = <<>>
    /\ search_results = <<>>
    /\ research_output = None

\* queries = self._generate_research_queries(topic, requirements)
ReGenerateQueries ==
    /\ UNCHANGED notRe
    /\ re_pc = "new"
    /\ queries' = _generate_research_queries(re_topic, re_requirements)
    /\ re_pc' = "searching"
    /\ UNCHANGED <<re_topic, re_requirements, searches, returned, search_results,
                   research_output>>

\* The call the loop would repeat after a search that failed, if it tried a
\* failed query again.
SearchCallRetrying(all_queries, so_far) ==
    LET n == Len(so_far)
    IN  [ query       |-> IF n > 0 /\ so_far[n] = SearchFailed
                          THEN all_queries[n] ELSE all_queries[n + 1],
          num_results |-> 5 ]

\* self.web_search_tool.run(query, num_results=5) for the query the loop
\* has come to, so_far being what the earlier calls returned.
SearchCall(all_queries, so_far) ==
    [ query |-> all_queries[Len(so_far) + 1], num_results |-> 5 ]

\* One turn of the loop: run the next query and extend search_results.
ReSearch ==
    /\ UNCHANGED notRe
    /\ re_pc = "searching"
    /\ Len(returned) < Len(queries)
    /\ searches' = Append(searches, SearchCall(queries, returned))
    /\ \E got \in SearchReturns :
          /\ returned' = Append(returned, got)
          /\ search_results' = search_results \o got
    /\ UNCHANGED <<re_pc, re_topic, re_requirements, queries, research_output>>

\* The loop is over: build and return research_output.
ReCompile ==
    /\ UNCHANGED notRe
    /\ re_pc = "searching"
    /\ Len(returned) = Len(queries)
    /\ research_output' \in conduct_research(re_topic, re_requirements, search_results)
    /\ re_pc' = "compiled"
    /\ UNCHANGED <<re_topic, re_requirements, queries, searches, returned, search_results>>

ReNext == ReGenerateQueries \/ ReSearch \/ ReCompile

SpecResearch == ReInit /\ [][ReNext]_vars

(***************************************************************************)
(* Claims about the research stage (SpecResearch).                         *)
(***************************************************************************)

NoValidResult == \A i \in 1..Len(search_results) : ~IsValidResult(search_results[i])

\* C4: a search result carrying the key 'error' contributes to nothing of
\* what conduct_research returns: the returned dict is one the stage can
\* return on the same results with the error results left out (summary, key
\* facts, statistics, quotes, sources, gaps and credibility alike).  When no
\* valid result remains the summary is the "Limited research available" text
\* on the topic, key_facts, statistics, expert_quotes and source_references
\* are empty, and the credibility assessment is the one for no valid source.
C4_ErrorResultsDiscarded ==
    re_pc = "compiled" =>
        /\ research_output \in
              conduct_research(re_topic, re_requirements,
                               SelectSeq(search_results, IsValidResult))
        /\ NoValidResult =>
              /\ research_output.research_summary =
                    [ text |-> "Limited research available", topic |-> re_topic ]
              /\ research_output.key_facts = <<>>
              /\ research_output.statistics = <<>>
              /\ research_output.expert_quotes = <<>>
              /\ research_output.source_references = <<>>
              /\ research_output.credibility_assessment =
                    [ overall_score100 |-> 0, assessment |-> "No valid sources found" ]

\* Failed searches between successful ones: the output counts the valid
\* results only.
C4_Witness ==
    /\ re_pc = "compiled"
    /\ Len(returned) = 8
    /\ returned[1] = SearchFailed
    /\ returned[2] = <<GovResult>>
    /\ returned[3] = SearchFailed
    /\ \A i \in 4..8 : returned[i] = SearchFailed
    /\ research_output.research_summary.sources = 1
    /\ Len(research_output.source_references) = 1
    /\ research_output.credibility_assessment.total_sources = 1

\* Two SEO keywords, and every search returned three results, none of them
\* an error.
ThreeSnippetsEachCall ==
    /\ re_pc = "compiled"
    /\ Len(Get(re_requirements, "seo_keywords", <<>>)) = 2
    /\ \A i \in 1..Len(returned) :
          /\ Len(returned[i]) = 3
          /\ \A k \in 1..3 : IsValidResult(returned[i][k])

\* C10 as claimed: with two SEO keywords and three non-error snippets from
\* every search, source_references is non-empty with at most 3 entries and
\* the overall credibility score lies in [0, 1].
C10_AtMostThreeSources ==
    ThreeSnippetsEachCall =>
        /\ research_output.source_references # <<>>
        /\ Len(research_output.source_references) <= 3
        /\ research_output.credibility_assessment.overall_score100 \in 0..100

\* C10 amended: with two SEO keywords and three non-error snippets from
\* every search, the 8 searches collect 24 valid results, source_references
\* holds exactly 5 entries (the first five valid results, ordered by
\* credibility), and the overall credibility score lies in [0, 1].
C10_FiveSources ==
    ThreeSnippetsEachCall =>
        /\ Len(queries) = 8
        /\ Len(search_results) = 24
        /\ Len(research_output.source_references) = 5
        /\ research_output.credibility_assessment.overall_score100 \in 0..100
        /\ research_output.credibility_assessment.total_sources = 24

C10_Witness ==
    /\ ThreeSnippetsEachCall
    /\ Len(returned) = 8
    /\ Len(research_output.source_references) = 5
    /\ research_output.source_references[1].credibility10 = 9
    /\ research_output.credibility_assessment.overall_score100 = 67

---------------------------------------------------------------------------
(* Text for the SEO analyzer (utils/tools.py SEOAnalyzerTool) and the SEO  *)
(* stage (agents/seo_optimizer.py).  A string is the sequence of its       *)
(* pieces.  A piece is a record: s names it, chars is its length, words    *)
(* the number of whitespace-delimited words it adds, and where they apply  *)
(*   kw       the lower-cased keyword the piece is an occurrence of        *)
(*   pattern  the heading pattern word it holds ('benefits', ...)          *)
(*   generic  the generic term it is an occurrence of ('it', ...)          *)
(*   marker   'related topics' or 'frequently asked questions'             *)
(*   link     it is a markdown link [text](url)                            *)
(* Newlines, spaces, full stops, question marks, colons and the markdown   *)
(* marks at the start of a line are pieces of their own.  Plain text holds *)
(* none of these, and no keyword holds another.                            *)

Atom(s, chars, words) == [s |-> s, chars |-> chars, words |-> words]

NL == Atom("\n", 1, 0)
SP == Atom(" ", 1, 0)
Stop == Atom(".", 1, 0)
Question == Atom("?", 1, 0)
Colon == Atom(":", 1, 0)
Ellipsis == Atom("...", 3, 0)
H1Mark == Atom("# ", 2, 1)
H2Mark == Atom("## ", 3, 1)
H3Mark == Atom("### ", 4, 1)
Bullet == Atom("- ", 2, 1)
HeadingMarks == {H1Mark, H2Mark, H3Mark}

\* len() and len(str.split()) of the keywords and topics in use.
PhraseChars(s) ==
    CASE s = "productivity" -> 12
      [] s = "distributed engineering team collaboration platforms" -> 52
      [] s = "Untitled" -> 8
      [] s = "" -> 0
      [] OTHER -> 11

PhraseWords(s) ==
    CASE s = "productivity" -> 1
      [] s = "distributed engineering team collaboration platforms" -> 5
      [] s = "Untitled" -> 1
      [] s = "#RemoteWork" -> 1
      [] s = "" -> 0
      [] OTHER -> 2

\* The keyword or topic s written out.
Phrase(s) ==
    [ s |-> s, chars |-> PhraseChars(s), words |-> PhraseWords(s), kw |-> Lower(s) ]

Chars(text) == Sum([i \in 1..Len(text) |-> text[i].chars])

IsSpace(a) == a \in {NL, SP}

\* The pieces that end with a space of their own.
SpacedMarks == HeadingMarks \cup {Bullet}

\* The piece at i starts a run of pieces between white space, and no piece
\* of that run holds a word: punctuation standing alone.
AloneAt(text, i) ==
    /\ ~IsSpace(text[i])
    /\ (i = 1 \/ IsSpace(text[i - 1]) \/ text[i - 1] \in SpacedMarks)
    /\ LET ends == {j \in i..Len(text) :
                       j = Len(text) \/ IsSpace(text[j + 1]) \/ text[j] \in SpacedMarks}
           last == CHOOSE j \in ends : \A k \in ends : j <= k
       IN  /\ \A k \in i..last : text[k].words = 0
           /\ \E k \in i..last : text[k].chars > 0

\* len(text.split()): the words the pieces hold, and one more for every
\* run of punctuation that stands alone.
Words(text) ==
    Sum([i \in 1..Len(text) |-> text[i].words])
        + Cardinality({i \in 1..Len(text) : AloneAt(text, i)})

RECURSIVE LStrip(_)
LStrip(text) ==
    IF text # <<>> /\ IsSpace(Head(text)) THEN LStrip(Tail(text)) ELSE text

RECURSIVE RStrip(_)
RStrip(text) ==
    IF text # <<>> /\ IsSpace(text[Len(text)])
    THEN RStrip(SubSeq(text, 1, Len(text) - 1)) ELSE text

Strip(text) == RStrip(LStrip(text))

\* str.find: the first position where sep starts in text, 0 if none.
Find(text, sep) ==
    LET at == {i \in 1..(Len(text) - Len(sep) + 1) :
                  SubSeq(text, i, i + Len(sep) - 1) = sep}
    IN  IF at = {} THEN 0 ELSE CHOOSE i \in at : \A j \in at : i <= j

RECURSIVE Split(_, _)
Split(text, sep) ==
    LET i == Find(text, sep)
    IN  IF i = 0 THEN <<text>>
        ELSE <<SubSeq(text, 1, i - 1)>>
                \o Split(SubSeq(text, i + Len(sep), Len(text)), sep)

RECURSIVE Join(_, _)
Join(parts, sep) ==
    IF parts = <<>> THEN <<>>
    ELSE IF Len(parts) = 1 THEN parts[1]
    ELSE parts[1] \o sep \o Join(Tail(parts), sep)

\* text[:n]; a piece cut in two leaves plain characters.
RECURSIVE Prefix(_, _)
Prefix(text, n) ==
    IF text = <<>> \/ n <= 0 THEN <<>>
    ELSE IF Head(text).chars <= n
         THEN <<Head(text)>> \o Prefix(Tail(text), n - Head(text).chars)
         ELSE << [ s |-> "cut", chars |-> n, words |-> Min(1, Head(text).words),
                   of |-> Head(text).s ] >>

\* keyword.lower() in text.lower()
ContainsKw(text, keyword) ==
    \E i \in 1..Len(text) : Get(text[i], "kw", "") = Lower(keyword)

\* keyword in text
ContainsExact(text, keyword) ==
    \E i \in 1..Len(text) : text[i].s = keyword

\* text.lower().count(keyword.lower())
CountKw(text, keyword) ==
    Cardinality({i \in 1..Len(text) : Get(text[i], "kw", "") = Lower(keyword)})

HasAtom(text, a) == \E i \in 1..Len(text) : text[i] = a

StartsWith(text, marks) == text # <<>> /\ text[1] \in marks

\* text.replace('\n', ' ')
NewlinesToSpaces(text) == [i \in 1..Len(text) |-> IF text[i] = NL THEN SP ELSE text[i]]

\* The integers round() can return for num / den: the nearest one, and
\* either neighbour when the quotient lies halfway (the quotient is a binary
\* float).
Rounded(num, den) ==
    LET down == num \div den
        rest == num % den
    IN  IF 2 * rest < den THEN {down}
        ELSE IF 2 * rest > den THEN {down + 1}
        ELSE {down, down + 1}

---------------------------------------------------------------------------
(* utils/tools.py SEOAnalyzerTool.  Densities are kept in hundredths of a  *)
(* percent (keyword_density100) and the average paragraph length in tenths *)
(* of a word (avg_paragraph_length10), the precisions they are rounded to. *)

KeywordSet(keywords) == {keywords[i] : i \in 1..Len(keywords)}

\* The offsets content_lower.find(keyword_lower, start) returns in turn.
Positions(content, keyword) ==
    LET Here(i) == Get(content[i], "kw", "") = Lower(keyword)
        at == SelectSeq([i \in 1..Len(content) |-> i], Here)
    IN  [n \in 1..Len(at) |-> Chars(SubSeq(content, 1, at[n] - 1))]

\* The dicts holding, for each key, one of the values given for it.
Dicts(keys, values) ==
    LET low(k) == CHOOSE v \in values[k] : \A u \in values[k] : v <= u
        high(k) == CHOOSE v \in values[k] : \A u \in values[k] : v >= u
    IN  { [k \in keys |-> IF k \in up THEN high(k) ELSE low(k)] :
            up \in SUBSET {k \in keys : low(k) # high(k)} }

\* The dicts _analyze_keywords can return.
_analyze_keywords(content, keywords) ==
    LET total_words == Words(content)
        count(k) == CountKw(content, k)
        density100 == [k \in KeywordSet(keywords) |->
                          Rounded(count(k) * 10000, total_words)]
        Missing(k) == count(k) = 0
    IN  { [ target_keywords   |-> keywords,
            keyword_density100 |-> d,
            keyword_positions |-> [k \in KeywordSet(keywords) |-> Positions(content, k)],
            missing_keywords  |-> SelectSeq(keywords, Missing) ] :
            d \in IF total_words > 0
                  THEN Dicts(KeywordSet(keywords), density100)
                  ELSE {EmptyDict} }

_check_heading_hierarchy(content) ==
    LET lines == Split(content, <<NL>>)
        IsHeading(line) == StartsWith(line, HeadingMarks) /\ Strip(Tail(line)) # <<>>
        headings == SelectSeq(lines, IsHeading)
    IN  [i \in 1..Len(headings) |->
            [ level |-> headings[i][1].chars - 1, text |-> LStrip(Tail(headings[i])) ]]

NonBlank(p) == Strip(p) # <<>>

\* The dicts _analyze_structure can return.
_analyze_structure(content) ==
    LET paragraphs == SelectSeq(Split(content, <<NL, NL>>), NonBlank)
        total_words == Sum([i \in 1..Len(paragraphs) |-> Words(paragraphs[i])])
        lines == Split(content, <<NL>>)
    IN  { [ has_headings     |-> \E i \in 1..Len(content) : content[i] \in HeadingMarks,
            heading_hierarchy |-> _check_heading_hierarchy(content),
            paragraph_count  |-> Len(paragraphs),
            avg_paragraph_length10 |-> avg,
            has_lists        |-> \E i \in 1..Len(lines) : StartsWith(LStrip(lines[i]), {Bullet}),
            internal_links   |-> Cardinality({i \in 1..Len(content) : Get(content[i], "link", FALSE)}),
            word_count       |-> Words(content) ] :
            avg \in IF paragraphs # <<>>
                    THEN Rounded(total_words * 10, Len(paragraphs))
                    ELSE {0} }

\* re.split(r'[.!?]+', content)[0]
FirstSentence(content) ==
    LET ends == {i \in 1..Len(content) : content[i] \in {Stop, Question}}
    IN  IF ends = {} THEN content
        ELSE SubSeq(content, 1, (CHOOSE i \in ends : \A j \in ends : i <= j) - 1)

_generate_meta_suggestions(content) ==
    LET first_sentence == Strip(FirstSentence(content))
        title_suggestion == IF Chars(first_sentence) > 60
                            THEN Prefix(first_sentence, 60) \o <<Ellipsis>>
                            ELSE first_sentence
        description_suggestion == IF Chars(content) > 155
                                  THEN Prefix(content, 155) \o <<Ellipsis>>
                                  ELSE content
    IN  [ title |-> title_suggestion,
          description |-> Strip(NewlinesToSpaces(description_suggestion)) ]

\* _calculate_seo_score returning score where the code returns
\* max(0, min(100, score)).
_calculate_seo_score_unclamped(analysis) ==
    LET keyword_analysis == analysis.keyword_analysis
        structure == analysis.content_structure
    IN  100 - Len(keyword_analysis.missing_keywords) * 10
            - (IF ~structure.has_headings THEN 20 ELSE 0)
            - (IF structure.word_count < 300 THEN 15 ELSE 0)
            - (IF structure.avg_paragraph_length10 > 1500 THEN 10 ELSE 0)

_calculate_seo_score(analysis) ==
    LET keyword_analysis == analysis.keyword_analysis
        structure == analysis.content_structure
        score == 100 - Len(keyword_analysis.missing_keywords) * 10
                     - (IF ~structure.has_headings THEN 20 ELSE 0)
                     - (IF structure.word_count < 300 THEN 15 ELSE 0)
                     - (IF structure.avg_paragraph_length10 > 1500 THEN 10 ELSE 0)
    IN  Max(0, Min(100, score))
\* _generate_recommendations without its last two checks (lists, links).
_generate_recommendations_without_extras(analysis) ==
    LET keyword_analysis == analysis.keyword_analysis
        structure == analysis.content_structure
    IN  (IF keyword_analysis.missing_keywords # <<>>
         THEN << <<"Include missing keywords", keyword_analysis.missing_keywords>> >>
         ELSE <<>>)
        \o (IF ~structure.has_headings THEN << <<"Add headings">> >> ELSE <<>>)
        \o (IF structure.word_count < 300 THEN << <<"Increase content length">> >> ELSE <<>>)
        \o (IF structure.avg_paragraph_length10 > 1500
            THEN << <<"Break up long paragraphs">> >> ELSE <<>>)

_generate_recommendations(analysis) ==
    LET keyword_analysis == analysis.keyword_analysis
        structure == analysis.content_structure
    IN  (IF keyword_analysis.missing_keywords # <<>>
         THEN << <<"Include missing keywords", keyword_analysis.missing_keywords>> >>
         ELSE <<>>)
        \o (IF ~structure.has_headings THEN << <<"Add headings">> >> ELSE <<>>)
        \o (IF structure.word_count < 300 THEN << <<"Increase content length">> >> ELSE <<>>)
        \o (IF structure.avg_paragraph_length10 > 1500
            THEN << <<"Break up long paragraphs">> >> ELSE <<>>)
        \o (IF ~structure.has_lists THEN << <<"Consider adding lists">> >> ELSE <<>>)
        \o (IF structure.internal_links = 0 THEN << <<"Add internal links">> >> ELSE <<>>)

\* The dicts SEOAnalyzerTool.run can return.
run(content, keywords) ==
    LET analysis(k, s) == [ keyword_analysis  |-> k,
                            content_structure |-> s,
                            meta_suggestions  |-> _generate_meta_suggestions(content) ]
    IN  { [ keyword_analysis  |-> k,
            content_structure |-> s,
            meta_suggestions  |-> _generate_meta_suggestions(content),
            seo_score         |-> _calculate_seo_score(analysis(k, s)),
            recommendations   |-> _generate_recommendations(analysis(k, s)) ] :
            k \in _analyze_keywords(content, keywords),
            s \in _analyze_structure(content) }

---------------------------------------------------------------------------
(* The SEO analyzer on its own, on every content of up to MaxUnits units   *)
(* and the keyword lists below.                                            *)

MaxUnits == 3

AnUnits ==
    { <<Phrase("remote work"), SP>>,
      <<Phrase("Remote Work"), SP>>,
      <<Phrase("productivity"), Stop, SP>>,
      <<Atom("plain words", 11, 2), SP>>,
      <<NL, NL>> }

AnContents == { Concat(units) : units \in SeqsUpTo(AnUnits, MaxUnits) }

AnKeywords ==
    { <<"remote work">>, <<"Remote Work", "productivity">>,
      <<"productivity", "distributed engineering team collaboration platforms">> }

AnInit ==
    /\ OthersIdle("analyzer")
    /\ an_pc = "new"
    /\ an_content \in AnContents
    /\ an_keywords \in AnKeywords
    /\ an_analysis = None

AnRun ==
    /\ UNCHANGED notAn
    /\ an_pc = "new"
    /\ an_analysis' \in run(an_content, an_keywords)
    /\ an_pc' = "done"
    /\ UNCHANGED <<an_content, an_keywords>>

AnNext == AnRun

SpecAnalyzer == AnInit /\ [][AnNext]_vars

(***************************************************************************)
(* Claims about the SEO analyzer (SpecAnalyzer).                           *)
(***************************************************************************)

\* C9: for every content and keyword of the analysis, keyword_density holds
\* for the keyword 100 times its case-insensitive occurrences divided by the
\* number of words of the content (to the two decimals it is given with),
\* and holds 0 for it when the content has no word.
C9_DensityOfEveryKeyword ==
    an_pc = "done" =>
        \A k \in KeywordSet(an_keywords) :
            LET density100 == an_analysis.keyword_analysis.keyword_density100
                words == Words(an_content)
                exact == 10000 * CountKw(an_content, k)
            IN  /\ k \in DOMAIN density100
                /\ IF words = 0
                   THEN density100[k] = 0
                   ELSE /\ 2 * (density100[k] * words - exact) <= words
                        /\ 2 * (exact - density100[k] * words) <= words

---------------------------------------------------------------------------
(* agents/seo_optimizer.py                                                 *)

Marked(s, chars, words, field, value) ==
    (field :> value) @@ Atom(s, chars, words)

HasPattern(text, patterns) ==
    \E i \in 1..Len(text) : Get(text[i], "pattern", "") \in patterns

HasMarker(text, marker) ==
    \E i \in 1..Len(text) : Get(text[i], "marker", "") = marker

\* The index of the first line that starts with '# ', 0 if there is none.
TitleLine(lines) ==
    LET at == {i \in 1..Len(lines) : StartsWith(lines[i], {H1Mark})}
    IN  IF at = {} THEN 0 ELSE CHOOSE i \in at : \A j \in at : i <= j

_optimize_title_seo(content, keywords) ==
    LET lines == Split(content, <<NL>>)
        i == TitleLine(lines)
        title == Strip(Tail(lines[i]))
        primary_keyword == keywords[1]
        parts == Split(title, <<Colon>>)
        new_title ==
            IF HasAtom(title, Colon)
            THEN IF ~ContainsKw(parts[1], primary_keyword)
                 THEN <<Phrase(primary_keyword), Colon, SP>> \o Strip(parts[2])
                 ELSE title
            ELSE <<Phrase(primary_keyword), Colon, SP>> \o title
    IN  IF i # 0 /\ keywords # <<>> /\ ~ContainsKw(title, primary_keyword)
        THEN Join([lines EXCEPT ![i] = <<H1Mark>> \o new_title], <<NL>>)
        ELSE content

\* The heading text after the keyword was offered to it.
RewrittenHeading(heading_text, keyword) ==
    IF HasPattern(heading_text, {"benefits", "advantages"})
    THEN <<Phrase(keyword), Marked(" Benefits and Advantages", 24, 3, "pattern", "benefits")>>
    ELSE IF HasPattern(heading_text, {"challenges"})
    THEN <<Phrase(keyword), Marked(" Challenges and Solutions", 25, 3, "pattern", "challenges")>>
    ELSE IF HasPattern(heading_text, {"best practices"})
    THEN <<Marked("Best Practices for ", 19, 3, "pattern", "best practices"), Phrase(keyword)>>
    ELSE IF HasPattern(heading_text, {"future"})
    THEN <<Marked("Future of ", 10, 2, "pattern", "future"), Phrase(keyword)>>
    ELSE heading_text

\* The loop of _optimize_headings_seo from the first of lines on.
\* The loop of _optimize_headings_seo going to the next keyword only after a
\* heading it has rewritten.
RECURSIVE HeadingsFromOnRewrite(_, _, _)
HeadingsFromOnRewrite(lines, keywords, keyword_index) ==
    IF lines = <<>> THEN <<>>
    ELSE LET line == Head(lines)
             heading_text == Strip(Tail(Strip(line)))
             keyword == keywords[keyword_index + 1]
             rewritten == RewrittenHeading(heading_text, keyword)
         IN  IF /\ StartsWith(line, {H2Mark})
                /\ keyword_index < Len(keywords)
                /\ ~ContainsKw(heading_text, keyword)
             THEN << <<H2Mark>> \o rewritten >>
                    \o HeadingsFromOnRewrite(Tail(lines), keywords,
                           IF rewritten # heading_text THEN keyword_index + 1
                           ELSE keyword_index)
             ELSE <<line>> \o HeadingsFromOnRewrite(Tail(lines), keywords, keyword_index)

RECURSIVE HeadingsFrom(_, _, _)
HeadingsFrom(lines, keywords, keyword_index) ==
    IF lines = <<>> THEN <<>>
    ELSE LET line == Head(lines)
             heading_text == Strip(Tail(Strip(line)))
             keyword == keywords[keyword_index + 1]
         IN  IF /\ StartsWith(line, {H2Mark})
                /\ keyword_index < Len(keywords)
                /\ ~ContainsKw(heading_text, keyword)
             THEN << <<H2Mark>> \o RewrittenHeading(heading_text, keyword) >>
                    \o HeadingsFrom(Tail(lines), keywords, keyword_index + 1)
             ELSE <<line>> \o HeadingsFrom(Tail(lines), keywords, keyword_index)

_optimize_headings_seo(content, keywords) ==
    IF keywords = <<>> THEN content
    ELSE Join(HeadingsFrom(Split(content, <<NL>>), keywords, 0), <<NL>>)

generic_terms ==
    <<"this technology", "this approach", "this method", "this solution", "it">>

\* The generic term that the text of an atom holds: the term itself, or
\* the 'it' inside the keyword 'productivity'.
TermsOf(a) ==
    {Get(a, "generic", "")} \cup (IF a.s = "productivity" THEN {"it"} ELSE {})

\* The first of generic_terms that sentence.lower() holds, "" if none.
TermIn(sentence) ==
    LET held == {n \in 1..Len(generic_terms) :
                    \E i \in 1..Len(sentence) : generic_terms[n] \in TermsOf(sentence[i])}
    IN  IF held = {} THEN ""
        ELSE generic_terms[CHOOSE n \in held : \A o \in held : n <= o]

\* sentence.replace(term, keyword, 1): the replacement is case-sensitive,
\* and it replaces inside a word as well.
ReplaceFirst(sentence, term, keyword) ==
    LET at == {i \in 1..Len(sentence) :
                  sentence[i].s = term \/ (term = "it" /\ sentence[i].s = "productivity")}
        first == CHOOSE i \in at : \A j \in at : i <= j
        replaced == IF sentence[first].s = term THEN <<Phrase(keyword)>>
                    ELSE <<Atom("productiv", 9, 0), Phrase(keyword), Atom("y", 1, 0)>>
    IN  IF at = {} THEN sentence
        ELSE SubSeq(sentence, 1, first - 1) \o replaced
                 \o SubSeq(sentence, first + 1, Len(sentence))

\* The loop over the sentences of a paragraph: the sentences after it and
\* additions_made after it.
RECURSIVE SentencesFrom(_, _, _, _)
SentencesFrom(sentences, keyword, count, additions_made) ==
    IF sentences = <<>> THEN [ sentences |-> <<>>, additions_made |-> additions_made ]
    ELSE LET sentence == Head(sentences)
             term == TermIn(sentence)
             replaces == Words(sentence) > 10 /\ additions_made < count /\ term # ""
             rest == SentencesFrom(Tail(sentences), keyword, count,
                                   IF replaces THEN additions_made + 1 ELSE additions_made)
         IN  [ sentences |-> << IF replaces THEN ReplaceFirst(sentence, term, keyword)
                                ELSE sentence >> \o rest.sentences,
               additions_made |-> rest.additions_made ]

\* The loop over the paragraphs.
RECURSIVE ParagraphsFrom(_, _, _, _)
ParagraphsFrom(paragraphs, keyword, count, additions_made) ==
    IF paragraphs = <<>> THEN <<>>
    ELSE LET para == Head(paragraphs)
             skipped == \/ additions_made >= count
                        \/ StartsWith(para, HeadingMarks)
                        \/ Words(para) < 20
                        \/ ContainsKw(para, keyword)
             done == SentencesFrom(Split(para, <<Stop>>), keyword, count, additions_made)
         IN  IF skipped
             THEN <<para>> \o ParagraphsFrom(Tail(paragraphs), keyword, count, additions_made)
             ELSE << Join(done.sentences, <<Stop>>) >>
                    \o ParagraphsFrom(Tail(paragraphs), keyword, count, done.additions_made)

_add_keyword_naturally(content, keyword, count) ==
    Join(ParagraphsFrom(Split(content, <<NL, NL>>), keyword, count, 0), <<NL, NL>>)

\* The loop of _integrate_keywords_naturally from the first of keywords on.
RECURSIVE IntegrateFrom(_, _)
IntegrateFrom(optimized, keywords) ==
    IF keywords = <<>> THEN optimized
    ELSE LET keyword == Head(keywords)
             word_count == Words(optimized)
             current_count == CountKw(optimized, keyword)
             target_count == Max(1, (word_count * 15) \div 1000)
             additions_needed == target_count - current_count
         IN  IntegrateFrom(IF current_count < target_count
                           THEN _add_keyword_naturally(optimized, keyword, additions_needed)
                           ELSE optimized,
                           Tail(keywords))

_integrate_keywords_naturally(content, keywords) ==
    IF keywords = <<>> THEN content ELSE IntegrateFrom(content, keywords)

\* The lines a paragraph of more than 200 words is broken into.
RECURSIVE BreakFrom(_, _)
BreakFrom(sentences, current_para) ==
    IF sentences = <<>>
    THEN IF current_para # <<>> THEN << Strip(Join(current_para, <<Stop>>)) >> ELSE <<>>
    ELSE LET longer == Append(current_para, Head(sentences))
         IN  IF Words(Join(longer, <<SP>>)) > 100
             THEN << Strip(Join(longer, <<Stop>>)) \o <<Stop>> >>
                    \o BreakFrom(Tail(sentences), <<>>)
             ELSE BreakFrom(Tail(sentences), longer)

_optimize_content_structure(content) ==
    LET lines == Split(content, <<NL>>)
        optimized(line) ==
            IF StartsWith(line, HeadingMarks) THEN <<line>>
            ELSE IF Strip(line) # <<>> /\ Words(line) > 200
                 THEN BreakFrom(Split(line, <<Stop>>), <<>>)
                 ELSE <<line>>
    IN  Join(Concat([i \in 1..Len(lines) |-> optimized(lines[i])]), <<NL>>)

\* requirements.get('topic', default) inside a string.
TopicOf(requirements, default) == <<Phrase(Get(requirements, "topic", default))>>

_generate_faq_section(keywords, requirements) ==
    LET primary_keyword == IF keywords # <<>> THEN <<Phrase(keywords[1])>>
                           ELSE TopicOf(requirements, "")
        heading == <<H2Mark, Marked("Frequently Asked Questions about ", 33, 4,
                                    "marker", "frequently asked questions")>>
                      \o primary_keyword
        what == <<Atom("**What is ", 10, 2)>> \o primary_keyword
                   \o <<Question, Atom("**", 2, 0), NL>> \o primary_keyword
                   \o <<Atom(" is a comprehensive approach ... their outcomes", 126, 17), Stop>>
        how == <<Atom("**How does ", 11, 2)>> \o primary_keyword
                  \o <<Atom(" work", 5, 1), Question, Atom("**", 2, 0), NL,
                       Atom("The implementation of ", 22, 3)>> \o primary_keyword
                  \o <<Atom(" involves several key steps ... and executed", 90, 13), Stop>>
        benefits == <<Atom("**What are the benefits of ", 27, 5)>> \o primary_keyword
                       \o <<Question, Atom("**", 2, 0), NL,
                            Atom("The main benefits include ... in the marketplace", 128, 15),
                            Stop>>
    IN  Strip(heading \o <<NL, NL>> \o what \o <<NL, NL>> \o how \o <<NL, NL>>
                \o benefits \o <<NL, NL>>)

_generate_related_topics_section(keywords) ==
    LET first == Take(keywords, 4)
        bullets(k) == <<Bullet, Phrase(k), Atom(" Best Practices", 15, 2), NL,
                        Bullet, Phrase(k), Atom(" Implementation Guide", 21, 2), NL>>
    IN  <<H2Mark, Marked("Related Topics", 14, 2, "marker", "related topics"), NL, NL,
          Atom("Explore these related subjects to deepen your understanding:", 60, 8),
          NL, NL>>
            \o Concat([i \in 1..Len(first) |-> bullets(first[i])])
            \o <<NL, Atom("These topics provide ... for your journey", 80, 11), Stop>>

_add_seo_elements(content, keywords, requirements) ==
    LET with_faq == IF Len(keywords) >= 2
                    THEN content \o <<NL, NL>> \o _generate_faq_section(keywords, requirements)
                    ELSE content
    IN  IF ~HasMarker(with_faq, "related topics")
        THEN with_faq \o <<NL, NL>> \o _generate_related_topics_section(keywords)
        ELSE with_faq

_optimize_content_seo(content, keywords, requirements) ==
    _add_seo_elements(
        _optimize_content_structure(
            _integrate_keywords_naturally(
                _optimize_headings_seo(
                    _optimize_title_seo(content, keywords), keywords), keywords)),
        keywords, requirements)

_generate_meta_tags(content, keywords, requirements) ==
    LET lines == Split(content, <<NL>>)
        i == TitleLine(lines)
        found == IF i # 0 THEN Strip(Tail(lines[i])) ELSE TopicOf(requirements, "Untitled")
        primary_keyword == IF keywords # <<>> THEN keywords[1] ELSE ""
        title == IF Chars(found) > 60 THEN Prefix(found, 57) \o <<Ellipsis>>
                 ELSE IF /\ Chars(found) < 30
                         /\ primary_keyword # ""
                         /\ ~ContainsExact(found, primary_keyword)
                 THEN <<Phrase(primary_keyword), Atom(" - ", 3, 1)>> \o found
                 ELSE found
        Substantial(p) == Strip(p) # <<>> /\ ~StartsWith(p, HeadingMarks)
        paragraphs == SelectSeq(Split(content, <<NL, NL>>), Substantial)
        first_para == IF paragraphs # <<>> THEN paragraphs[1] ELSE <<>>
        cleaned == Strip(NewlinesToSpaces(first_para))
        two == Take(keywords, 2)
        description ==
            IF Chars(cleaned) > 160 THEN Prefix(cleaned, 157) \o <<Ellipsis>>
            ELSE IF Chars(cleaned) < 120 /\ keywords # <<>>
            THEN cleaned \o <<Atom(" Learn about ", 13, 2)>>
                    \o Join([n \in 1..Len(two) |-> <<Phrase(two[n])>>], <<Atom(", ", 2, 0)>>)
                    \o <<Atom(" and more", 9, 2), Stop>>
            ELSE cleaned
        five == Take(keywords, 5)
    IN  [ title          |-> title,
          description    |-> description,
          keywords       |-> Join([n \in 1..Len(five) |-> <<Phrase(five[n])>>],
                                  <<Atom(", ", 2, 0)>>),
          og_title       |-> title,
          og_description |-> description,
          og_type        |-> "article",
          robots         |-> "index, follow",
          canonical      |-> [ base |-> "https://example.com/", words_of |-> title ] ]

_track_seo_optimizations(original, optimized, keywords) ==
    LET More(k) == CountKw(optimized, k) > CountKw(original, k)
        increased == SelectSeq(keywords, More)
        headings(text) == Cardinality({i \in 1..Len(text) : text[i] \in {H2Mark, H3Mark}})
        title(text) == LET lines == Split(text, <<NL>>)
                       IN  IF TitleLine(lines) # 0 THEN lines[TitleLine(lines)] ELSE <<>>
        optimizations ==
            [n \in 1..Len(increased) |->
                <<"Increased mentions", increased[n],
                  CountKw(original, increased[n]), CountKw(optimized, increased[n])>>]
            \o (IF headings(optimized) > headings(original)
                THEN << <<"Added SEO-optimized headings">> >> ELSE <<>>)
            \o (IF /\ HasMarker(optimized, "frequently asked questions")
                   /\ ~HasMarker(original, "frequently asked questions")
                THEN << <<"Added FAQ section">> >> ELSE <<>>)
            \o (IF /\ HasMarker(optimized, "related topics")
                   /\ ~HasMarker(original, "related topics")
                THEN << <<"Added related topics section">> >> ELSE <<>>)
            \o (IF title(original) # title(optimized)
                THEN << <<"Optimized title for primary keyword">> >> ELSE <<>>)
    IN  IF optimizations = <<>> THEN << <<"Applied general SEO best practices">> >>
        ELSE optimizations

\* The dicts _generate_keyword_report can return.  The density compared with
\* the thresholds is the exact quotient.
_generate_keyword_report(content, keywords) ==
    LET total_words == Words(content)
        lines == Split(content, <<NL>>)
        count(k) == CountKw(content, k)
        in_title(k) == ContainsKw(Prefix(content, 100), k)
        in_headings(k) == \E i \in 1..Len(lines) :
                              StartsWith(lines[i], HeadingMarks) /\ ContainsKw(lines[i], k)
        in_first_para(k) == ContainsKw(Prefix(content, 500), k)
        placement_score(k) == Count(in_title(k)) + Count(in_headings(k))
                                + Count(in_first_para(k))
        rounded == [k \in KeywordSet(keywords) |->
                       IF total_words > 0 THEN Rounded(count(k) * 10000, total_words)
                       ELSE {0}]
    IN  { [ total_words |-> total_words,
            keyword_analysis |->
                [k \in KeywordSet(keywords) |->
                    [ count |-> count(k),
                      density100 |-> d[k],
                      in_title |-> in_title(k),
                      in_headings |-> in_headings(k),
                      in_first_paragraph |-> in_first_para(k),
                      optimal_density |-> /\ total_words > 0
                                          /\ total_words <= 100 * count(k)
                                          /\ 40 * count(k) <= total_words ]],
            density_analysis |->
                [k \in KeywordSet(keywords) |->
                    IF total_words = 0 \/ 200 * count(k) < total_words
                    THEN "Too low - increase usage"
                    ELSE IF 100 * count(k) > 3 * total_words
                    THEN "Too high - reduce usage"
                    ELSE "Optimal range"],
            placement_analysis |->
                [k \in KeywordSet(keywords) |->
                    [ score |-> placement_score(k),
                      assessment |-> IF placement_score(k) >= 2 THEN "Excellent"
                                     ELSE IF placement_score(k) = 1 THEN "Good"
                                     ELSE "Needs improvement" ]] ] :
            d \in Dicts(KeywordSet(keywords), rounded) }

---------------------------------------------------------------------------
(* The SEO stage on its own, optimize_content statement by statement, on   *)
(* the documents and requirements below.                                   *)

Generic(term, chars, words) == Marked(term, chars, words, "generic", term)

\* A sentence of 12 words holding 'this approach', and one of 12 words
\* holding 'it' after a capitalised 'This method'.
ApproachSentence ==
    <<Atom("Teams that adopt ", 17, 3), Generic("this approach", 13, 2),
      Atom(" report fewer meetings and faster reviews overall", 49, 7)>>

ItSentence ==
    <<SP, Marked("This method", 11, 2, "generic", "this method"),
      Atom(" keeps the schedule light because ", 34, 5), Generic("it", 2, 1),
      Atom(" needs no shared hours", 22, 4)>>

\* An empty document.
EmptyDocument == <<>>

\* One paragraph of 117 characters and no heading.
ShortParagraph == <<Atom("A paragraph of nineteen plain words", 116, 19), Stop>>

\* A title with a colon, the four heading patterns, a plain heading, a
\* level-3 heading, and paragraphs with generic terms.
Article ==
    <<H1Mark, Atom("Teamwork", 8, 1), Colon, SP, Atom("a field guide", 13, 3), NL, NL>>
        \o ApproachSentence \o <<Stop>> \o ItSentence \o <<Stop, NL, NL,
           H2Mark, Marked("Benefits", 8, 1, "pattern", "benefits"), NL, NL>>
        \o ApproachSentence \o <<Stop, SP>> \o ApproachSentence \o <<Stop, NL, NL,
           H2Mark, Atom("Background", 10, 1), NL, NL,
           H2Mark, Marked("Challenges", 10, 1, "pattern", "challenges"), NL, NL,
           H3Mark, Atom("Details", 7, 1), NL, NL,
           H2Mark, Marked("Best practices", 14, 2, "pattern", "best practices"), NL, NL,
           H2Mark, Marked("Future", 6, 1, "pattern", "future"),
           SP, Phrase("productivity")>>

\* A title and a heading that hold the keyword in capitals, a paragraph of
\* more than 200 words, and a Related Topics section of its own.
Handbook ==
    <<H1Mark, Phrase("Remote Work"), Atom(" handbook", 9, 1), NL, NL,
      Atom("One hundred and five plain words", 640, 105), Stop, SP,
      Atom("One hundred and five more plain words", 640, 105), Stop, NL, NL,
      H2Mark, Phrase("Remote Work"), SP, Marked("advantages", 10, 1, "pattern", "advantages"),
      NL, NL,
      H2Mark, Marked("Related Topics", 14, 2, "marker", "related topics"), NL, NL,
      Bullet, Atom("Hiring", 6, 1)>>

\* A title of more than 60 characters and a first paragraph of more than
\* 160.
LongOpening ==
    <<H1Mark, Atom("A title of sixty-four characters", 64, 9), NL, NL,
      Atom("A first paragraph of thirty plain words", 180, 30), Stop, SP>>
        \o ApproachSentence \o <<Stop>>

\* A title with two colons that holds the second keyword before the first
\* of them, a paragraph that holds the first keyword and no generic term, a
\* Related Topics section of its own, and a second top-level heading.
Digest ==
    <<H1Mark, Phrase("productivity"), Atom(" tips", 5, 1), Colon, SP, Atom("tools", 5, 1),
      Colon, SP, Atom("a guide", 7, 2), NL, NL,
      Atom("Twenty-two plain words about ", 140, 22), Phrase("remote work"), Stop, NL, NL,
      H2Mark, Marked("Related Topics", 14, 2, "marker", "related topics"), NL, NL,
      Bullet, Atom("Hiring", 6, 1), NL, NL,
      H1Mark, Atom("Appendix", 8, 1)>>

SeoContents == {EmptyDocument, ShortParagraph, Article, Handbook, LongOpening, Digest}

\* Seven keywords that no content holds.
ManyKeywords ==
    <<"cloud costs", "data models", "edge caches", "lunar rocks", "solar flare",
      "ocean waves", "river delta">>

SeoKeywords ==
    { <<>>,
      <<"remote work">>,
      <<"remote work", "productivity">>,
      <<"Remote Work", "productivity", "distributed engineering team collaboration platforms">>,
      <<"distributed engineering team collaboration platforms", "remote work">>,
      ManyKeywords }

SeoRequirements ==
    { [ topic |-> "Remote work", seo_keywords |-> k ] : k \in SeoKeywords }
        \cup { [ topic |-> "Remote work" ], [ seo_keywords |-> <<"productivity">> ] }

SeoInit ==
    /\ OthersIdle("seo")
    /\ seo_pc = "analyze"
    /\ seo_content \in SeoContents
    /\ seo_requirements \in SeoRequirements
    /\ target_keywords = <<>>
    /\ seo_analysis = None
    /\ optimized_content = <<>>
    /\ meta_tags = None
    /\ final_analysis = None
    /\ seo_output = None

\* target_keywords = ...; seo_analysis = self.seo_analyzer.run(...); enter
\* _optimize_content_seo.
SeoAnalyze ==
    /\ UNCHANGED notSeo
    /\ seo_pc = "analyze"
    /\ target_keywords' = Get(seo_requirements, "seo_keywords", <<>>)
    /\ seo_analysis' \in run(seo_content, target_keywords')
    /\ optimized_content' = seo_content
    /\ seo_pc' = "title"
    /\ UNCHANGED <<seo_content, seo_requirements, meta_tags, final_analysis, seo_output>>

\* One statement of _optimize_content_seo.
SeoStep(at, next, optimized) ==
    /\ UNCHANGED notSeo
    /\ seo_pc = at
    /\ optimized_content' = optimized
    /\ seo_pc' = next
    /\ UNCHANGED <<seo_content, seo_requirements, target_keywords, seo_analysis,
                   meta_tags, final_analysis, seo_output>>

SeoOptimizeTitle ==
    SeoStep("title", "headings", _optimize_title_seo(optimized_content, target_keywords))

SeoOptimizeHeadings ==
    SeoStep("headings", "integrate", _optimize_headings_seo(optimized_content, target_keywords))

SeoIntegrateKeywords ==
    SeoStep("integrate", "structure",
            _integrate_keywords_naturally(optimized_content, target_keywords))

SeoOptimizeStructure ==
    SeoStep("structure", "elements", _optimize_content_structure(optimized_content))

SeoAddElements ==
    SeoStep("elements", "meta",
            _add_seo_elements(optimized_content, target_keywords, seo_requirements))

\* meta_tags = self._generate_meta_tags(...)
SeoGenerateMetaTags ==
    /\ UNCHANGED notSeo
    /\ seo_pc = "meta"
    /\ meta_tags' = _generate_meta_tags(optimized_content, target_keywords, seo_requirements)
    /\ seo_pc' = "final"
    /\ UNCHANGED <<seo_content, seo_requirements, target_keywords, seo_analysis,
                   optimized_content, final_analysis, seo_output>>

\* final_analysis = self.seo_analyzer.run(optimized_content, target_keywords)
SeoFinalAnalysis ==
    /\ UNCHANGED notSeo
    /\ seo_pc = "final"
    /\ final_analysis' \in run(optimized_content, target_keywords)
    /\ seo_pc' = "output"
    /\ UNCHANGED <<seo_content, seo_requirements, target_keywords, seo_analysis,
                   optimized_content, meta_tags, seo_output>>

\* seo_output = {...}; return seo_output
SeoReturn ==
    /\ UNCHANGED notSeo
    /\ seo_pc = "output"
    /\ \E report \in _generate_keyword_report(optimized_content, target_keywords) :
          seo_output' =
              [ original_content   |-> seo_content,
                optimized_content  |-> optimized_content,
                target_keywords    |-> target_keywords,
                seo_analysis       |-> seo_analysis,
                final_seo_analysis |-> final_analysis,
                meta_tags          |-> meta_tags,
                optimizations_made |-> _track_seo_optimizations(seo_content, optimized_content,
                                                                target_keywords),
                seo_score          |-> Get(final_analysis, "seo_score", 0),
                recommendations    |-> Get(final_analysis, "recommendations", <<>>),
                keyword_report     |-> report ]
    /\ seo_pc' = "returned"
    /\ UNCHANGED <<seo_content, seo_requirements, target_keywords, seo_analysis,
                   optimized_content, meta_tags, final_analysis>>

SeoNext ==
    \/ SeoAnalyze
    \/ SeoOptimizeTitle
    \/ SeoOptimizeHeadings
    \/ SeoIntegrateKeywords
    \/ SeoOptimizeStructure
    \/ SeoAddElements
    \/ SeoGenerateMetaTags
    \/ SeoFinalAnalysis
    \/ SeoReturn

SpecSEO == SeoInit /\ [][SeoNext]_vars

-----------------------------------------------------------------------------
\* Claims about the SEO stage (SpecSEO).

\* The number of section headings of one kind in a text.
Sections(text, marker) ==
    Cardinality({i \in 1..Len(text) : Get(text[i], "marker", "") = marker})

\* C7: for an empty seo_keywords list optimize_content completes, and the
\* optimized content has neither an FAQ section nor a Related Topics section
\* appended: it holds as many of each as the original content.
C7_NoSectionsWithoutKeywords ==
    (seo_pc = "returned" /\ target_keywords = <<>>) =>
        /\ Sections(seo_output.optimized_content, "frequently asked questions")
               = Sections(seo_content, "frequently asked questions")
        /\ Sections(seo_output.optimized_content, "related topics")
               = Sections(seo_content, "related topics")

\* C8: the meta tags that optimize_content returns have a title of at most
\* 60 characters and a description of at most 160 characters, for every
\* content, keyword list and requirements.
C8_MetaTagLengths ==
    seo_pc = "returned" =>
        /\ Chars(seo_output.meta_tags.title) <= 60
        /\ Chars(seo_output.meta_tags.description) <= 160

-----------------------------------------------------------------------------
(* utils/tools.py ContentValidatorTool.  A text is a sequence of pieces as *)
(* above; the pieces of the texts handed to the validator and the editor   *)
(* hold no white space, so that every word is one piece or a piece with    *)
(* punctuation after it.  A piece can also carry                           *)
(*   long     a word of more than five letters it holds, in lower case     *)
(*   times    how many times it holds that word (1 if absent)              *)
(*   mention  'benefit', 'advantage', 'challenge' or 'difficult', the one  *)
(*            it holds in any case of letters                              *)
(*   starts   "lower" or "upper", the case of its first letter             *)
(* The readability is kept in hundredths (readability_score100).           *)

Comma == Atom(",", 1, 0)
Exclaim == Atom("!", 1, 0)
EndMarks == {Stop, Question, Exclaim, Ellipsis}

\* len(re.split(r'[.!?]+', content)) - 1: the runs of end marks.
EndRuns(content) ==
    Cardinality({i \in 1..Len(content) :
                    /\ content[i] \in EndMarks
                    /\ (i = 1 \/ content[i - 1] \notin EndMarks)})

\* The values _calculate_readability can return: a quotient halfway between
\* two hundredths rounds either way.
_calculate_readability(content) ==
    LET sentences == EndRuns(content)
        words == Words(content)
    IN  IF sentences = 0 THEN {0}
        ELSE Rounded(Max(0, 10000 * sentences - 200 * words), sentences)

\* word_freq of _identify_issues: the long words in the order they first
\* appear, and how often each appears.
LongWords(content) ==
    LET here(a) == Get(a, "long", "") # ""
        held == SelectSeq(content, here)
    IN  Distinct([i \in 1..Len(held) |-> held[i].long])

Frequency(content, word) ==
    Sum([i \in 1..Len(content) |->
            IF Get(content[i], "long", "") = word THEN Get(content[i], "times", 1) ELSE 0])

_identify_issues(content) ==
    LET paragraphs == SelectSeq(Split(content, <<NL, NL>>), NonBlank)
        long(i) == IF Words(paragraphs[i]) > 200
                   THEN << [ issue |-> "Paragraph is very long", paragraph |-> i,
                             words |-> Words(paragraphs[i]) ] >>
                   ELSE <<>>
        words == LongWords(content)
        repeated(i) == IF Frequency(content, words[i]) > 10
                       THEN << [ issue |-> "Word appears potentially repetitive",
                                 word |-> words[i], freq |-> Frequency(content, words[i]) ] >>
                       ELSE <<>>
        stripped == Strip(content)
        unended == IF stripped = <<>> \/ stripped[Len(stripped)] \notin EndMarks
                   THEN << [ issue |-> "Content doesn't end with proper punctuation" ] >>
                   ELSE <<>>
    IN  Concat([i \in 1..Len(paragraphs) |-> long(i)])
            \o Concat([i \in 1..Len(words) |-> repeated(i)])
            \o unended

\* _calculate_quality_score returning score where the code returns
\* max(0, min(100, score)).
_calculate_quality_score_unclamped(metrics) ==
    LET word_count == metrics.word_count
    IN  100 - Len(metrics.issues) * 5
            - (IF metrics.readability_score100 < 3000 THEN 20
               ELSE IF metrics.readability_score100 < 5000 THEN 10 ELSE 0)
            - (IF word_count < 100 THEN 30
               ELSE IF word_count < 300 THEN 15
               ELSE IF word_count > 3000 THEN 10 ELSE 0)

_calculate_quality_score(metrics) ==
    LET issues == 100 - Len(metrics.issues) * 5
        readable == IF metrics.readability_score100 < 3000 THEN issues - 20
                    ELSE IF metrics.readability_score100 < 5000 THEN issues - 10
                    ELSE issues
        word_count == metrics.word_count
        score == IF word_count < 100 THEN readable - 30
                 ELSE IF word_count < 300 THEN readable - 15
                 ELSE IF word_count > 3000 THEN readable - 10
                 ELSE readable
    IN  Max(0, Min(100, score))

\* The dicts ContentValidatorTool.run can return.
ContentValidator_run(content) ==
    { [ validation_results EXCEPT !.quality_score = _calculate_quality_score(validation_results) ] :
        validation_results \in
            { [ word_count      |-> Words(content),
                character_count |-> Chars(content),
                sentence_count  |-> EndRuns(content),
                paragraph_count |-> Len(SelectSeq(Split(content, <<NL, NL>>), NonBlank)),
                readability_score100 |-> readability,
                issues          |-> _identify_issues(content),
                quality_score   |-> 0 ] : readability \in _calculate_readability(content) } }

-----------------------------------------------------------------------------
(* agents/editor.py EditorAgent.  A heading mark written without the space *)
(* after it is a piece of no word: it is one word with the text after it.  *)
(* Plain text holds no '#', no wordy phrase, no transition word and no     *)
(* ' and ' or ' which ' but in the pieces written so.                      *)

TightH1 == Atom("#", 1, 0)
TightH2 == Atom("##", 2, 0)

\* The number of '#' a piece starts with.
Level(a) ==
    CASE a \in {H1Mark, TightH1} -> 1
      [] a \in {H2Mark, TightH2} -> 2
      [] a = H3Mark -> 3
      [] OTHER -> 0

\* '#' * level + ' '
Hashes(level) == <<H1Mark, H2Mark, H3Mark>>[level]

\* text.count('#')
CountHashes(text) == Sum([i \in 1..Len(text) |-> Level(text[i])])

\* text.replace(old, new)
RECURSIVE Replace(_, _, _)
Replace(text, old, new) ==
    LET i == Find(text, old)
    IN  IF i = 0 THEN text
        ELSE SubSeq(text, 1, i - 1) \o new
                \o Replace(SubSeq(text, i + Len(old), Len(text)), old, new)

_fix_paragraph_spacing(content) ==
    LET paragraphs == Split(content, <<NL, NL>>)
        cleaned(para) == IF Strip(para) # <<>> THEN << NewlinesToSpaces(Strip(para)) >>
                         ELSE <<>>
    IN  Join(Concat([i \in 1..Len(paragraphs) |-> cleaned(paragraphs[i])]), <<NL, NL>>)

_improve_structure(content, requirements) ==
    LET lines == Split(content, <<NL>>)
        improved(line) ==
            IF line # <<>> /\ Level(line[1]) > 0
            THEN <<Hashes(Level(line[1]))>> \o Strip(Tail(line))
            ELSE line
    IN  _fix_paragraph_spacing(Join([i \in 1..Len(lines) |-> improved(lines[i])], <<NL>>))

\* The wordy phrases and what replaces each, in the order of the dict.
clarity_improvements ==
    << <<"in order to", <<Atom("to", 2, 1)>> >>,
       <<"due to the fact that", <<Atom("because", 7, 1)>> >>,
       <<"at this point in time", <<Atom("now", 3, 1)>> >>,
       <<"for the purpose of", <<Atom("to", 2, 1)>> >>,
       <<"in the event that", <<Atom("if", 2, 1)>> >>,
       <<"take into consideration", <<Atom("consider", 8, 1)>> >>,
       <<"make a decision", <<Atom("decide", 6, 1)>> >>,
       <<"come to a conclusion", <<Atom("conclude", 8, 1)>> >>,
       <<"it is important to note that", <<>> >>,
       <<"it should be mentioned that", <<>> >>,
       <<"it is worth noting that", <<>> >> >>

\* A wordy phrase as it stands in a text, in lower case.
Wordy(phrase, chars, words) ==
    [s |-> phrase, chars |-> chars, words |-> words, starts |-> "lower"]

\* improved_content.replace(wordy, concise): a phrase with a capital is no
\* match.
ReplaceWordy(text, wordy, concise) ==
    Concat([i \in 1..Len(text) |->
               IF text[i].s = wordy /\ Get(text[i], "starts", "lower") = "lower"
               THEN concise ELSE <<text[i]>>])

RECURSIVE ClarityFrom(_, _)
ClarityFrom(improved, k) ==
    IF k > Len(clarity_improvements) THEN improved
    ELSE ClarityFrom(ReplaceWordy(improved, clarity_improvements[k][1],
                                  clarity_improvements[k][2]), k + 1)

_improve_clarity(content) == ClarityFrom(content, 1)

transition_starters ==
    {"However,", "Furthermore,", "Additionally,", "Moreover,",
     "In contrast,", "Similarly,", "Therefore,", "Consequently,"}

\* 'However, ' and 'Additionally, ' as _improve_flow writes them.
However == <<[s |-> "However,", chars |-> 8, words |-> 1, long |-> "however,", starts |-> "upper"], SP>>
Additionally == <<[s |-> "Additionally,", chars |-> 13, words |-> 1, long |-> "additionally,", starts |-> "upper"], SP>>

HasMention(text, mentions) ==
    \E i \in 1..Len(text) : Get(text[i], "mention", "") \in mentions

_improve_flow(content) ==
    LET paragraphs == Split(content, <<NL, NL>>)
        started(para) == Strip(para) # <<>> /\ Strip(para)[1].s \in transition_starters
        improved(i) ==
            LET para == paragraphs[i]
            IN  IF i > 1 /\ Words(para) > 20 /\ ~started(para)
                THEN IF HasMention(para, {"benefit", "advantage"})
                     THEN IF HasMention(paragraphs[i - 1], {"challenge"})
                          THEN However \o para
                          ELSE Additionally \o para
                     ELSE IF HasMention(para, {"challenge", "difficult"})
                          THEN However \o para
                          ELSE para
                ELSE para
    IN  Join([i \in 1..Len(paragraphs) |-> improved(i)], <<NL, NL>>)

And == <<SP, Atom("and", 3, 1), SP>>
Which == <<SP, Atom("which", 5, 1), SP>>
This == <<[s |-> "This", chars |-> 4, words |-> 1, starts |-> "upper"], SP>>
\* A readability step that closes the text with a stop:
\* '. '.join(improved_sentences) + '.'
_improve_readability_closed(content) ==
    LET sentences == Split(content, <<Stop>>)
        improved(raw) ==
            LET sentence == Strip(raw)
                by_and == Split(sentence, And)
                by_which == Split(sentence, Which)
            IN  IF Words(sentence) > 30 /\ Len(by_and) = 2
                THEN << Strip(by_and[1]), Strip(by_and[2]) >>
                ELSE IF Words(sentence) > 30 /\ Len(by_and) = 1 /\ Len(by_which) = 2
                THEN << Strip(by_which[1]), This \o Strip(by_which[2]) >>
                ELSE IF sentence # <<>> THEN <<sentence>> ELSE <<>>
    IN  Join(Concat([i \in 1..Len(sentences) |-> improved(sentences[i])]), <<Stop, SP>>)
            \o <<Stop>>

_improve_readability(content) ==
    LET sentences == Split(content, <<Stop>>)
        improved(raw) ==
            LET sentence == Strip(raw)
                by_and == Split(sentence, And)
                by_which == Split(sentence, Which)
            IN  IF Words(sentence) > 30 /\ Len(by_and) = 2
                THEN << Strip(by_and[1]), Strip(by_and[2]) >>
                ELSE IF Words(sentence) > 30 /\ Len(by_and) = 1 /\ Len(by_which) = 2
                THEN << Strip(by_which[1]), This \o Strip(by_which[2]) >>
                ELSE IF sentence # <<>> THEN <<sentence>> ELSE <<>>
    IN  Join(Concat([i \in 1..Len(sentences) |-> improved(sentences[i])]), <<Stop, SP>>)

\* The pairs of grammar_fixes, in the order of the dict.
grammar_fixes ==
    << << <<SP, Comma>>, <<Comma>> >>,
       << <<SP, Stop>>, <<Stop>> >>,
       << <<Comma, Comma>>, <<Comma>> >>,
       << <<Stop, Stop>>, <<Stop>> >>,
       << <<SP, SP>>, <<SP>> >> >>

RECURSIVE FixesFrom(_, _)
FixesFrom(improved, k) ==
    IF k > Len(grammar_fixes) THEN improved
    ELSE FixesFrom(Replace(improved, grammar_fixes[k][1], grammar_fixes[k][2]), k + 1)

\* sentence[0].upper() + sentence[1:] when sentence[0].islower()
Capitalized(sentence) ==
    IF sentence # <<>> /\ Get(sentence[1], "starts", "") = "lower"
    THEN << [sentence[1] EXCEPT !.starts = "upper"] >> \o Tail(sentence)
    ELSE sentence

_fix_common_issues(content, analysis) ==
    LET sentences == Split(FixesFrom(content, 1), <<Stop, SP>>)
    IN  Join([i \in 1..Len(sentences) |-> Capitalized(sentences[i])], <<Stop, SP>>)

_improve_content(content, requirements, analysis) ==
    _fix_common_issues(
        _improve_readability(
            _improve_flow(
                _improve_clarity(
                    _improve_structure(content, requirements)))),
        analysis)

\* sum(text.count(t) for t in transitions)
CountTransitions(text) ==
    Cardinality({i \in 1..Len(text) :
                    text[i].s \in {"However,", "Furthermore,", "Additionally,",
                                   "Moreover,", "Therefore,"}})

_track_improvements(original, improved) ==
    LET original_words == Words(original)
        improved_words == Words(improved)
        paras(text) == Len(SelectSeq(Split(text, <<NL, NL>>), NonBlank))
        improvements ==
            (IF improved_words < original_words
             THEN << <<"Reduced word count by", original_words - improved_words>> >>
             ELSE IF improved_words > original_words
             THEN << <<"Expanded content by", improved_words - original_words>> >>
             ELSE <<>>)
            \o (IF CountHashes(improved) > CountHashes(original)
                THEN << <<"Added headings to improve content structure">> >> ELSE <<>>)
            \o (IF paras(improved) # paras(original)
                THEN << <<"Reorganized content into better paragraph structure">> >>
                ELSE <<>>)
            \o (IF CountTransitions(improved) > CountTransitions(original)
                THEN << <<"Added transition words to improve flow">> >> ELSE <<>>)
    IN  IF improvements = <<>>
        THEN << <<"Made minor improvements to clarity and readability">> >>
        ELSE improvements

\* original_quality and improved_quality are what the validator returns for
\* original and improved.
_generate_editing_notes(original_quality, improved_quality, improved, requirements) ==
    LET original_score == Get(original_quality, "quality_score", 0)
        improved_score == Get(improved_quality, "quality_score", 0)
        original_issues == Len(Get(original_quality, "issues", <<>>))
        improved_issues == Len(Get(improved_quality, "issues", <<>>))
        original_readability == Get(original_quality, "readability_score100", 0)
        improved_readability == Get(improved_quality, "readability_score100", 0)
        target_words == Get(requirements, "word_count", 1000)
        actual_words == Words(improved)
        gap == IF actual_words >= target_words THEN actual_words - target_words
               ELSE target_words - actual_words
    IN  (IF improved_score > original_score
         THEN << <<"Quality score improved", original_score, improved_score>> >> ELSE <<>>)
        \o (IF improved_issues < original_issues
            THEN << <<"Resolved content issues", original_issues - improved_issues>> >>
            ELSE <<>>)
        \o (IF improved_readability > original_readability
            THEN << <<"Improved readability score", original_readability,
                      improved_readability>> >>
            ELSE <<>>)
        \o (IF 10 * gap <= target_words
            THEN << <<"Content length optimized to target", actual_words>> >> ELSE <<>>)
        \o << <<"Applied standard editorial best practices">>,
              <<"Ensured consistency in tone and style">> >>

\* EditorAgent._generate_recommendations; analysis is what the validator
\* returns for content.
Editor_generate_recommendations(analysis, content, requirements) ==
    LET quality_score == Get(analysis, "quality_score", 0)
        banded ==
            IF quality_score >= 90
            THEN << <<"Excellent content quality - ready for publication">>,
                    <<"Consider this content for featured placement or promotion">> >>
            ELSE IF quality_score >= 80
            THEN << <<"Good content quality - minor improvements may enhance impact">>,
                    <<"Content is ready for publication">> >>
            ELSE IF quality_score >= 70
            THEN << <<"Content needs minor improvements before publication">>,
                    <<"Consider additional review of structure and clarity">> >>
            ELSE << <<"Content requires significant improvements">>,
                    <<"Recommend additional editing pass before publication">> >>
        issues == Take(Get(analysis, "issues", <<>>), 3)
        word_count == Words(content)
        target_words == Get(requirements, "word_count", 1000)
        seo_keywords == Get(requirements, "seo_keywords", <<>>)
        missing(kw) == ~ContainsKw(content, kw)
        missing_keywords == SelectSeq(seo_keywords, missing)
    IN  Take(banded
             \o [i \in 1..Len(issues) |-> <<"Address", issues[i]>>]
             \o (IF 10 * word_count < 9 * target_words
                 THEN << <<"Consider expanding content", target_words>> >>
                 ELSE IF 10 * word_count > 11 * target_words
                 THEN << <<"Consider condensing content", target_words>> >>
                 ELSE <<>>)
             \o (IF missing_keywords # <<>>
                 THEN << <<"Consider incorporating missing SEO keywords", missing_keywords>> >>
                 ELSE <<>>),
             5)

\* The dicts edit_content can return when quality_analysis is analysis and
\* improved_content is improved.
edit_content(content, requirements, analysis, improved) ==
    { [ original_content    |-> content,
        edited_content      |-> improved,
        quality_analysis    |-> analysis,
        improvements_made   |-> _track_improvements(content, improved),
        editing_notes       |-> _generate_editing_notes(analysis, final, improved, requirements),
        final_quality_score |-> Get(final, "quality_score", 0),
        recommendations     |-> Editor_generate_recommendations(final, improved, requirements) ] :
        final \in ContentValidator_run(improved) }

-----------------------------------------------------------------------------
(* The editing stage on its own: edit_content on a content, and then again *)
(* on the edited content it returned, up to MaxPasses calls.               *)

MaxPasses == 3

\* n plain words in lower case.
Plain(n) == [s |-> "plain words", chars |-> 5 * n - 1, words |-> n, starts |-> "lower"]

\* n words, the first of them the word given, with a capital.
Mentioning(word, letters, n) ==
    [ s |-> "words that mention", chars |-> letters + 5 * (n - 1), words |-> n,
      mention |-> word, long |-> word, starts |-> "upper" ]

Sentence(n) == <<Plain(n), Stop, SP>>

\* A title, a paragraph of 178 words in sentences of 20, and a paragraph
\* of 21 words on a benefit.
FlowDocument ==
    <<H1Mark, Plain(1), NL, NL>>
        \o Sentence(20) \o Sentence(20) \o Sentence(20) \o Sentence(20)
        \o Sentence(20) \o Sentence(20) \o Sentence(20) \o Sentence(20)
        \o <<Plain(18), Stop, NL, NL, Mentioning("benefit", 7, 21), Stop>>

\* A heading written without its space, three newlines in a row, wordy
\* phrases, spaces before commas, doubled commas, stops and spaces, a
\* sentence of more than 30 words with one ' and ', one with one ' which ',
\* and a line break inside a paragraph.
MessyDocument ==
    <<TightH2, Plain(1), SP, NL, NL, NL,
      Wordy("in order to", 11, 3), SP, Plain(1), SP, Comma, SP, Plain(2), Comma, Comma,
      SP, SP, SP, Comma, SP, Wordy("it is worth noting that", 23, 5), SP, Plain(31)>>
        \o And \o <<Plain(4), SP, Stop, NL, Plain(32)>>
        \o Which \o <<Plain(4), Stop, Stop, SP, SP, Plain(1)>>

\* Paragraphs on a challenge, on a benefit, one that starts with a
\* transition, and one on a difficulty.
ChallengeDocument ==
    <<H1Mark, Plain(2), NL, NL,
      Mentioning("challenge", 9, 25), Stop, NL, NL,
      Mentioning("advantage", 9, 22), Stop, NL, NL,
      [s |-> "Furthermore,", chars |-> 12, words |-> 1, long |-> "furthermore,",
       starts |-> "upper"], SP, Mentioning("difficult", 9, 21), Stop, NL, NL,
      Mentioning("difficult", 9, 21), Exclaim>>

\* One sentence that holds a long word eleven times, and a word more.
RepetitiveDocument ==
    << [s |-> "a long word eleven times", chars |-> 87, words |-> 11,
        long |-> "content", times |-> 11, starts |-> "lower"], SP, Plain(1), Question >>

\* Fifteen paragraphs of 201 words and no end mark.
LongDocument ==
    Join([i \in 1..15 |-> <<Plain(201)>>], <<NL, NL>>)

\* A paragraph that holds the keyword.
KeywordDocument ==
    <<Plain(150), SP, Phrase("remote work"), SP, Plain(148), Stop>>
\* An abbreviation with its stop before a comma, a paragraph that ends with
\* a stop, and a last paragraph that ends with a question mark and a stop.
AbbreviationDocument ==
    <<Plain(3), SP, [s |-> "etc", chars |-> 3, words |-> 1, starts |-> "lower"],
      Stop, Comma, SP, Plain(2), Stop, NL, NL, Plain(2), Question, Stop>>

EdContents ==
    {EmptyDocument, FlowDocument, MessyDocument, ChallengeDocument, RepetitiveDocument,
     LongDocument, KeywordDocument, AbbreviationDocument}

EdRequirements ==
    { EmptyDict,
      [word_count |-> 200],
      [word_count |-> 300, seo_keywords |-> <<"remote work", "productivity">>] }

EdInit ==
    /\ OthersIdle("editor")
    /\ ed_pc = "analyze"
    /\ ed_content \in EdContents
    /\ ed_requirements \in EdRequirements
    /\ quality_analysis = None
    /\ improved_content = <<>>
    /\ editing_outputs = <<>>

\* quality_analysis = self.content_validator.run(content); enter
\* _improve_content.
EdAnalyze ==
    /\ UNCHANGED notEd
    /\ ed_pc = "analyze"
    /\ quality_analysis' \in ContentValidator_run(ed_content)
    /\ improved_content' = ed_content
    /\ ed_pc' = "structure"
    /\ UNCHANGED <<ed_content, ed_requirements, editing_outputs>>

\* One statement of _improve_content.
EdStep(at, next, improved) ==
    /\ UNCHANGED notEd
    /\ ed_pc = at
    /\ improved_content' = improved
    /\ ed_pc' = next
    /\ UNCHANGED <<ed_content, ed_requirements, quality_analysis, editing_outputs>>

EdImproveStructure ==
    EdStep("structure", "clarity", _improve_structure(improved_content, ed_requirements))

EdImproveClarity ==
    EdStep("clarity", "flow", _improve_clarity(improved_content))

EdImproveFlow ==
    EdStep("flow", "readability", _improve_flow(improved_content))

EdImproveReadability ==
    EdStep("readability", "fix", _improve_readability(improved_content))

EdFixCommonIssues ==
    EdStep("fix", "report", _fix_common_issues(improved_content, quality_analysis))

\* editing_output = {...}; return editing_output
EdReturn ==
    /\ UNCHANGED notEd
    /\ ed_pc = "report"
    /\ \E editing_output \in edit_content(ed_content, ed_requirements, quality_analysis,
                                          improved_content) :
          editing_outputs' = Append(editing_outputs, editing_output)
    /\ ed_pc' = "returned"
    /\ UNCHANGED <<ed_content, ed_requirements, quality_analysis, improved_content>>

\* edit_content is called again, on the edited content it returned and with
\* the same requirements.
EdAgain ==
    /\ UNCHANGED notEd
    /\ ed_pc = "returned"
    /\ Len(editing_outputs) < MaxPasses
    /\ ed_content' = editing_outputs[Len(editing_outputs)].edited_content
    /\ quality_analysis' = None
    /\ improved_content' = <<>>
    /\ ed_pc' = "analyze"
    /\ UNCHANGED <<ed_requirements, editing_outputs>>

EdNext ==
    \/ EdAnalyze
    \/ EdImproveStructure
    \/ EdImproveClarity
    \/ EdImproveFlow
    \/ EdImproveReadability
    \/ EdFixCommonIssues
    \/ EdReturn
    \/ EdAgain

SpecEditor == EdInit /\ [][EdNext]_vars

-----------------------------------------------------------------------------
\* Claims about the editing stage (SpecEditor).

\* C11: running edit_content again, with the same requirements, on the
\* edited_content it returned never gives a final_quality_score lower than
\* that of the run before.
C11_RerunKeepsScore ==
    \A k \in 1..(Len(editing_outputs) - 1) :
        editing_outputs[k + 1].final_quality_score >= editing_outputs[k].final_quality_score

\* C12: a pass of edit_content over content that is itself the output of a
\* pass reports no improvement: its improvements_made holds no entry, or
\* none but the line written when nothing was improved.
C12_SecondPassImprovesNothing ==
    \A k \in 2..Len(editing_outputs) :
        editing_outputs[k].improvements_made
            \in { <<>>, << <<"Made minor improvements to clarity and readability">> >> }

-----------------------------------------------------------------------------
\* Claims about the Content Validator, as the editing stage runs it
\* (SpecEditor).

\* The penalties the quality score subtracts from 100, read from the fields
\* of a validation result.
C15_Penalties(m) ==
    5 * Len(m.issues)
      + (IF m.readability_score100 < 3000 THEN 20
         ELSE IF m.readability_score100 < 5000 THEN 10 ELSE 0)
      + (IF m.word_count < 100 THEN 30
         ELSE IF m.word_count < 300 THEN 15
         ELSE IF m.word_count > 3000 THEN 10 ELSE 0)

\* C15: the Content Validator's quality_score is 100 less 5 per issue, less
\* 20 for a readability under 30 or 10 for one under 50, less 30 for under
\* 100 words, 15 for under 300 or 10 for over 3000, clamped to 0..100; on
\* the empty string it gives word_count 0, a sentence_count (of 0) and a
\* quality_score of at least 0.
C15_QualityScoreFormula ==
    quality_analysis # None =>
        /\ quality_analysis.quality_score
              = (IF C15_Penalties(quality_analysis) > 100 THEN 0
                 ELSE 100 - C15_Penalties(quality_analysis))
        /\ ed_content = EmptyDocument =>
              /\ quality_analysis.word_count = 0
              /\ quality_analysis.sentence_count = 0
              /\ quality_analysis.quality_score >= 0

\* The validator has scored a text whose penalties exceed 100, and has
\* scored the empty string.
C15_Witness ==
    /\ quality_analysis # None
    /\ \/ C15_Penalties(quality_analysis) > 100
       \/ ed_content = EmptyDocument

-----------------------------------------------------------------------------
(* The stages that compute a score, each on its own inputs: the research   *)
(* stage, the SEO stage and the editing stage with its Content Validator.  *)

ScInit == ReInit \/ SeoInit \/ EdInit

ScNext == ReNext \/ SeoNext \/ EdNext

SpecScores == ScInit /\ [][ScNext]_vars

\* C14: every credibility score (that of each source, and the overall
\* score of credibility_assessment) lies in [0, 1], and every seo_score,
\* every Content Validator quality_score and every editor
\* final_quality_score lies in [0, 100].
C14_ScoresInRange ==
    /\ research_output # None =>
          /\ \A i \in 1..Len(research_output.source_references) :
                 research_output.source_references[i].credibility10 \in 0..10
          /\ research_output.credibility_assessment.overall_score100 \in 0..100
    /\ seo_analysis # None => seo_analysis.seo_score \in 0..100
    /\ final_analysis # None => final_analysis.seo_score \in 0..100
    /\ seo_output # None => seo_output.seo_score \in 0..100
    /\ quality_analysis # None => quality_analysis.quality_score \in 0..100
    /\ \A k \in 1..Len(editing_outputs) :
          /\ editing_outputs[k].quality_analysis.quality_score \in 0..100
          /\ editing_outputs[k].final_quality_score \in 0..100

\* The SEO stage has returned for a content that lacks seven keywords, no
\* headings and 300 words: the penalties of its first analysis exceed 100.
C14_Witness ==
    /\ seo_output # None
    /\ Len(seo_output.seo_analysis.keyword_analysis.missing_keywords) = 7
    /\ ~seo_output.seo_analysis.content_structure.has_headings
    /\ seo_output.seo_analysis.seo_score = 0

-----------------------------------------------------------------------------
\* Claims about the final report, as the driver has it made (Spec).

\* C16: the final report's recommendations are the validation's
\* improvements_needed, then the SEO stage's recommendations, then one line
\* banded by overall_score (at least 90 featured, at least 80 minor
\* improvements, otherwise significant improvements); next_steps is the four
\* ready-for-publication items when the validation passed and the four
\* needs-rework items otherwise; quality_assessment is the validation of the
\* final content passed in.
C16_ReportRecommendations ==
    pc = "store" =>
        LET report == results.final_report
            v      == report.quality_assessment
            band   == IF v.overall_score >= 90 THEN "featured"
                      ELSE IF v.overall_score >= 80 THEN "minor improvements"
                      ELSE "significant improvements"
        IN  /\ v = validate_content_quality(results.final_content, results.plan)
            /\ report.recommendations
                  = v.improvements_needed \o results.seo.recommendations
                      \o << [kind |-> band] >>
            /\ Len(report.next_steps) = 4
            /\ report.next_steps
                  = IF v.passed
                    THEN << "Content is ready for publication",
                            "Schedule social media promotion",
                            "Consider internal linking opportunities",
                            "Monitor performance metrics after publication" >>
                    ELSE << "Address quality issues identified in validation",
                            "Re-run content through editing agent if needed",
                            "Consider additional research if content gaps exist",
                            "Re-validate content after improvements" >>

\* A report made from a validation that found something to improve and an
\* SEO stage that recommended something.
C16_Witness ==
    /\ pc = "store"
    /\ results.final_report.quality_assessment.improvements_needed # <<>>
    /\ results.seo.recommendations # <<>>
    /\ results.final_report.next_steps[1] = "Address quality issues identified in validation"

-----------------------------------------------------------------------------
\* Claims about the content plan (SpecCoordinator).

\* C17: for requirements with word_count W (1000 when absent), the plan's
\* quality_criteria hold minimum_word_count = 0.9 W and maximum_word_count
\* = 1.1 W, so that minimum <= W <= maximum.  The counts are in tenths.
C17_RangeAroundTarget ==
    co_plan # None =>
        LET W == IF "word_count" \in DOMAIN co_requirements
                 THEN co_requirements.word_count ELSE 1000
            criteria == co_plan.quality_criteria
        IN  /\ criteria.minimum_word_count10 = 9 * W
            /\ criteria.maximum_word_count10 = 11 * W
            /\ criteria.minimum_word_count10 <= 10 * W
            /\ 10 * W <= criteria.maximum_word_count10
            /\ co_plan.word_count = W

\* A plan made for a word_count of its own, other than 1.
C17_Witness ==
    /\ co_plan # None
    /\ "word_count" \in DOMAIN co_requirements
    /\ co_requirements.word_count > 1
    /\ co_plan.quality_criteria.minimum_word_count10 < 10 * co_requirements.word_count

-----------------------------------------------------------------------------
(* agents/writer.py WriterAgent.  A section title is the tuple of its      *)
(* pieces, as the research stage builds it: a fixed text, then the topic   *)
(* if the title has one, then a '?' if it ends with one.  A Python dict is *)
(* the sequence of its <<key, value>> pairs in insertion order.            *)

DictHas(d, key) == \E i \in 1..Len(d) : d[i][1] = key

\* d.get(key, default)
DictGet(d, key, default) ==
    IF DictHas(d, key) THEN d[CHOOSE i \in 1..Len(d) : d[i][1] = key][2] ELSE default

\* d[key] = value: a key the dict holds keeps its place.
DictSet(d, key, value) ==
    IF DictHas(d, key)
    THEN [i \in 1..Len(d) |-> IF d[i][1] = key THEN <<key, value>> ELSE d[i]]
    ELSE Append(d, <<key, value>>)

\* The words that _write_section looks for which the fixed text of a title
\* holds, in lower case.
Held(piece) ==
    CASE piece \in {"Introduction to", "Introduction"} -> {"introduction"}
      [] piece \in {"Conclusion", "Conclusion and Next Steps"} -> {"conclusion"}
      [] piece = "Key Benefits of" -> {"benefit"}
      [] piece = "Key Benefits and Advantages" -> {"benefit", "advantage"}
      [] piece = "Challenges and Considerations" -> {"challenge", "consideration"}
      [] piece = "Best Practices and Tips" -> {"practice", "tip"}
      [] piece = "Best Practices" -> {"practice"}
      [] piece = "Advanced Tips" -> {"tip"}
      [] piece = "Future Outlook" -> {"future", "outlook"}
      [] OTHER -> {}

\* word in section_title.lower()
TitleHolds(section_title, word) == word \in Held(section_title[1])

\* len(piece.split()) of the fixed text of a title.
PieceWords(piece) ==
    CASE piece \in {"Introduction", "Conclusion", "Methodology", "Comparisons",
                    "Recommendations", "Understanding", "Background", "Examples",
                    "Discussion"} -> 1
      [] piece \in {"Introduction to", "What is", "Overview of", "Best Practices",
                    "Advanced Tips", "Future Outlook", "Practical Applications",
                    "Detailed Analysis", "Final Verdict", "Step-by-Step Process"} -> 2
      [] piece \in {"Key Benefits of", "Challenges and Considerations",
                    "Prerequisites and Requirements", "Pros and Cons"} -> 3
      [] OTHER -> 4

\* The title written out: f"{fixed} {topic}", f"{fixed} {topic}?" or fixed.
TitleText(section_title) ==
    << Atom(section_title[1], Len(section_title[1]), PieceWords(section_title[1])) >>
        \o (IF Len(section_title) >= 2 THEN <<SP, Phrase(section_title[2])>> ELSE <<>>)
        \o (IF Len(section_title) >= 3 THEN <<Question>> ELSE <<>>)

\* piece.lower(): as long as the piece; white space and marks are as
\* they were.
Lowered(a) ==
    IF a.words = 0 THEN a
    ELSE [ s |-> a.s, chars |-> a.chars, words |-> a.words, lower |-> TRUE ]

\* section_title.lower() written out.
LowerText(section_title) ==
    [i \in 1..Len(TitleText(section_title)) |-> Lowered(TitleText(section_title)[i])]

\* A key fact or a statistic of the research, written out.
Point(point) == Atom(point, 24, 4)

_create_default_outline(topic) ==
    << <<"Introduction to", topic>>,
       <<"Understanding", topic>>,
       <<"Key Benefits and Advantages">>,
       <<"Challenges and Considerations">>,
       <<"Best Practices and Tips">>,
       <<"Future Outlook">>,
       <<"Conclusion">> >>

\* section_weights in hundredths: {0: 0.15, num_sections - 1: 0.10}.  With
\* one section the two keys are the same and the second value stays.
section_weights(num_sections) ==
    DictSet(<< <<0, 15>> >>, num_sections - 1, 10)
\* SectionWords with round(...) in the place of int(...).
SectionWordsRounded(i, num_sections, total_words) ==
    LET weights == section_weights(num_sections)
        remaining_weight == 100 - Sum([k \in 1..Len(weights) |-> weights[k][2]])
        main_sections == num_sections - Len(weights)
    IN  IF DictHas(weights, i)
        THEN (2 * total_words * DictGet(weights, i, 0) + 100) \div 200
        ELSE IF main_sections > 0
             THEN (2 * total_words * remaining_weight + 100 * main_sections)
                      \div (200 * main_sections)
             ELSE 0

\* int(total_words * weight) of the section at index i (from 0).
SectionWords(i, num_sections, total_words) ==
    LET weights == section_weights(num_sections)
        remaining_weight == 100 - Sum([k \in 1..Len(weights) |-> weights[k][2]])
        main_sections == num_sections - Len(weights)
    IN  IF DictHas(weights, i)
        THEN (total_words * DictGet(weights, i, 0)) \div 100
        ELSE IF main_sections > 0
             THEN (total_words * remaining_weight) \div (100 * main_sections)
             ELSE 0

\* word_targets after the loop has been through the first n sections.
RECURSIVE WordTargets(_, _, _)
WordTargets(outline, total_words, n) ==
    IF n = 0 THEN <<>>
    ELSE DictSet(WordTargets(outline, total_words, n - 1), outline[n],
                 Max(50, SectionWords(n - 1, Len(outline), total_words)))

_calculate_section_word_targets(outline, total_words) ==
    IF Len(outline) = 0 THEN <<>>
    ELSE WordTargets(outline, total_words, Len(outline))

_create_content_plan(research_data, requirements) ==
    LET topic == Get(research_data, "topic", Get(requirements, "topic", ""))
        outline == Get(research_data, "content_outline", <<>>)
        used == IF outline # <<>> THEN outline ELSE _create_default_outline(topic)
    IN  [ topic             |-> topic,
          target_word_count |-> Get(requirements, "word_count", 1000),
          tone              |-> Get(requirements, "tone", "Professional"),
          target_audience   |-> Get(requirements, "target_audience", "General audience"),
          content_type      |-> Get(requirements, "content_type", "Blog post"),
          outline           |-> used,
          key_points        |-> Get(research_data, "key_facts", <<>>),
          statistics        |-> Get(research_data, "statistics", <<>>),
          quotes            |-> Get(research_data, "expert_quotes", <<>>),
          section_word_targets |->
              _calculate_section_word_targets(used, Get(requirements, "word_count", 1000)) ]

\* The paragraphs joined with blank lines.
Paragraphs(paragraphs) ==
    IF paragraphs = <<>> THEN <<>>
    ELSE Head(paragraphs)
           \o Concat([i \in 1..(Len(paragraphs) - 1) |-> <<NL, NL>> \o paragraphs[i + 1]])

\* f"- {point}\n" for each of the points.
Bullets(points) == Concat([i \in 1..Len(points) |-> <<Bullet, Point(points[i]), NL>>])

intro_templates(topic, tone) ==
    CASE tone = "Casual" ->
           <<Atom("Have you ever wondered about", 28, 5), SP, Phrase(topic), Question,
             SP, Atom("You're not alone! ... know about", 242, 38), SP, Phrase(topic),
             SP, Atom("in a clear, accessible way.", 27, 5)>>
      [] tone = "Technical" ->
           <<Phrase(topic), SP, Atom("represents a significant ... examination of", 167, 21), SP,
             Phrase(topic), Comma,
             SP, Atom("including its technical foundations ... stakeholders.", 105, 11)>>
      [] OTHER ->
           <<Atom("In today's rapidly evolving landscape,", 38, 5), SP, Phrase(topic),
             SP, Atom("has emerged as a critical factor ... aspects of", 228, 30), SP,
             Phrase(topic), Comma,
             SP, Atom("providing insights ... effectively.", 81, 11)>>

_write_introduction(topic, tone, target_words) ==
    LET base_intro == intro_templates(topic, tone)
        addition == <<NL, NL, Atom("Throughout this article, ... components of", 60, 9), SP,
                      Phrase(topic), Comma,
                      SP, Atom("discuss its benefits ... decisions about", 204, 31), SP,
                      Phrase(topic), Stop>>
    IN  IF Words(base_intro) < target_words THEN base_intro \o addition ELSE base_intro

conclusion_templates(topic, tone) ==
    CASE tone = "Casual" ->
           <<Atom("So there you have it ... know about", 56, 12), SP, Phrase(topic), Exclaim,
             SP, Atom("Remember, the key is ... right approach,", 182, 32), SP, Phrase(topic),
             SP, Atom("can make a real difference ... your goals.", 51, 9)>>
      [] tone = "Technical" ->
           <<Atom("The analysis of", 15, 3), SP, Phrase(topic),
             SP, Atom("reveals significant potential ... evaluation.", 272, 33)>>
      [] OTHER ->
           <<Atom("In conclusion,", 14, 2), SP, Phrase(topic),
             SP, Atom("represents a significant opportunity ... benefits of", 355, 48), SP,
             Phrase(topic), Stop>>

_write_conclusion(topic, tone, target_words) ==
    LET base_conclusion == conclusion_templates(topic, tone)
        cta == <<NL, NL, Atom("As you move forward with implementing", 37, 6), SP,
                 Phrase(topic), Comma,
                 SP, Atom("remember that continuous learning ... today.", 172, 25)>>
    IN  IF Words(base_conclusion) < target_words
        THEN base_conclusion \o cta ELSE base_conclusion

_write_benefits_section(topic, key_points, statistics, target_words) ==
    LET content ==
            <<Atom("The advantages of", 17, 3), SP, Phrase(topic),
              SP, Atom("are numerous and significant. ... know about:", 78, 13), NL, NL,
              Atom("**Enhanced Efficiency**:", 24, 2), SP, Phrase(topic),
              SP, Atom("streamlines processes ... complexity.", 57, 6), NL, NL,
              Atom("**Improved Outcomes**: Organizations implementing", 49, 4), SP,
              Phrase(topic), SP, Atom("often see measurable improvements in results.", 45, 6),
              NL, NL,
              Atom("**Cost-Effectiveness**: ... implementation costs.", 95, 9), NL, NL>>
            \o (IF statistics # <<>>
                THEN <<Atom("The data supports these benefits:", 33, 5), NL, NL>>
                       \o Bullets(Take(statistics, 2)) \o <<NL>>
                ELSE <<>>)
            \o (IF key_points # <<>>
                THEN <<Atom("Research indicates that:", 24, 3), NL, NL>>
                       \o Bullets(Take(key_points, 2))
                ELSE <<>>)
    IN  Strip(content)

_write_challenges_section(topic, target_words) ==
    <<Atom("While", 5, 1), SP, Phrase(topic),
      SP, Atom("offers significant benefits, ... considerations:", 99, 13), NL, NL,
      Atom("**Implementation Complexity**: Getting started with", 51, 5), SP, Phrase(topic),
      SP, Atom("may require significant planning and resources.", 47, 6), NL, NL,
      Atom("**Learning Curve**: ... new approaches.", 87, 14), NL, NL,
      Atom("**Initial Costs**: ... typically positive.", 101, 13), NL, NL,
      Atom("**Change Management**: ... effectively.", 91, 11), NL, NL,
      Atom("Despite these challenges, ... the benefits of", 70, 10), SP, Phrase(topic),
      SP, Atom("far outweigh the difficulties. ... expectations.", 85, 12)>>

_write_best_practices_section(topic, target_words) ==
    <<Atom("To maximize success with", 24, 4), SP, Phrase(topic), Comma,
      SP, Atom("consider these proven best practices:", 37, 5), NL, NL,
      Atom("**Start Small**: ... scaling up.", 91, 15), NL, NL,
      Atom("**Set Clear Goals**: ... objectives for your", 68, 9), SP, Phrase(topic),
      SP, Atom("initiative.", 11, 1), NL, NL,
      Atom("**Invest in Training**: ... for success.", 93, 14), NL, NL,
      Atom("**Monitor Progress**: ... based on results.", 85, 11), NL, NL,
      Atom("**Stay Flexible**: ... circumstances change.", 89, 13), NL, NL,
      Atom("**Seek Expert Guidance**: ... accelerate progress.", 97, 11), NL, NL,
      Atom("Remember, success with", 22, 3), SP, Phrase(topic),
      SP, Atom("is often a journey ... long-term success.", 128, 18)>>

_write_future_section(topic, target_words) ==
    <<Atom("Looking ahead, the future of", 28, 5), SP, Phrase(topic),
      SP, Atom("appears bright ... on the horizon:", 65, 9), NL, NL,
      Atom("**Emerging Trends**: ... developed, making", 91, 11), SP, Phrase(topic),
      SP, Atom("more accessible and effective than ever before.", 47, 7), NL, NL,
      Atom("**Increased Adoption**: ... the value of", 68, 9), SP, Phrase(topic), Comma,
      SP, Atom("we can expect ... across industries.", 62, 9), NL, NL,
      Atom("**Innovation Opportunities**: ... solutions.", 128, 15), NL, NL,
      Atom("**Integration Advances**: ... processes.", 122, 15), NL, NL,
      Atom("For those considering", 21, 3), SP, Phrase(topic), Comma,
      SP, Atom("now is an excellent time ... competitive.", 184, 28)>>

_write_general_section(section_title, topic, key_points, target_words) ==
    <<H2Mark>> \o TitleText(section_title) \o <<NL, NL>>
      \o <<Atom("When examining", 14, 2), SP, Phrase(topic), SP, Atom("in the context of", 17, 4), SP>>
      \o LowerText(section_title)
      \o <<Comma, SP, Atom("several important factors emerge.", 33, 4), NL, NL>>
      \o (IF key_points # <<>>
          THEN <<Atom("Key considerations include:", 27, 3), NL, NL>>
                 \o Bullets(Take(key_points, 3)) \o <<NL>>
          ELSE <<>>)
      \o <<Atom("Understanding these aspects of", 30, 4), SP, Phrase(topic),
           SP, Atom("is crucial ... success of any", 133, 22), SP, Phrase(topic),
           SP, Atom("initiative.", 11, 1), NL, NL,
           Atom("As you consider how", 19, 4), SP>>
      \o LowerText(section_title)
      \o <<SP, Atom("relates to your specific situation, ... of success.", 210, 29)>>

_write_section(section_title, content_plan, target_words) ==
    LET topic == Get(content_plan, "topic", "")
        tone == Get(content_plan, "tone", "Professional")
        key_points == Get(content_plan, "key_points", <<>>)
        statistics == Get(content_plan, "statistics", <<>>)
    IN  IF TitleHolds(section_title, "introduction")
        THEN _write_introduction(topic, tone, target_words)
        ELSE IF TitleHolds(section_title, "conclusion")
        THEN _write_conclusion(topic, tone, target_words)
        ELSE IF TitleHolds(section_title, "benefit") \/ TitleHolds(section_title, "advantage")
        THEN _write_benefits_section(topic, key_points, statistics, target_words)
        ELSE IF TitleHolds(section_title, "challenge")
                  \/ TitleHolds(section_title, "consideration")
        THEN _write_challenges_section(topic, target_words)
        ELSE IF TitleHolds(section_title, "practice") \/ TitleHolds(section_title, "tip")
        THEN _write_best_practices_section(topic, target_words)
        ELSE IF TitleHolds(section_title, "future") \/ TitleHolds(section_title, "outlook")
        THEN _write_future_section(topic, target_words)
        ELSE _write_general_section(section_title, topic, key_points, target_words)

\* section_content.startswith('#'): the content starts with a heading mark,
\* or with a topic that is written with a '#' first.
StartsWithHash(section_content) ==
    /\ section_content # <<>>
    /\ \/ section_content[1] \in HeadingMarks
       \/ section_content[1].s = "#RemoteWork"

_assemble_content(content_sections, requirements) ==
    LET topic == Get(requirements, "topic", "")
        title == <<H1Mark, Phrase(topic), Colon, SP, Atom("A Comprehensive Guide", 21, 3), NL, NL>>
        section(i) ==
            (IF ~StartsWithHash(content_sections[i][2])
             THEN <<H2Mark>> \o TitleText(content_sections[i][1]) \o <<NL, NL>>
             ELSE <<>>)
              \o content_sections[i][2] \o <<NL, NL>>
    IN  Strip(title \o Concat([i \in 1..Len(content_sections) |-> section(i)]))

\* One turn of the loop of _generate_content_sections.
WriteInto(sections, content_plan, section_title) ==
    LET word_targets == Get(content_plan, "section_word_targets", <<>>)
        target_words == DictGet(word_targets, section_title, 150)
    IN  DictSet(sections, section_title,
                _write_section(section_title, content_plan, target_words))

\* sections after the loop has been through the first n entries of outline.
RECURSIVE SectionsAfter(_, _)
SectionsAfter(content_plan, n) ==
    IF n = 0 THEN <<>>
    ELSE WriteInto(SectionsAfter(content_plan, n - 1), content_plan,
                   Get(content_plan, "outline", <<>>)[n])

_generate_content_sections(content_plan) ==
    SectionsAfter(content_plan, Len(Get(content_plan, "outline", <<>>)))

\* The model keeps paragraph_count, heading_count, has_proper_structure and
\* structure_score.
Writer_analyze_structure(content) ==
    LET lines == Split(content, <<NL>>)
        paragraphs == SelectSeq(Split(content, <<NL, NL>>), NonBlank)
        headings == SelectSeq(lines, StartsWithHash)
    IN  [ paragraph_count      |-> Len(paragraphs),
          heading_count        |-> Len(headings),
          has_proper_structure |-> Len(headings) > 0 /\ Len(paragraphs) > 2,
          structure_score      |->
              Min(100, Len(headings) * 20 + Min(Len(paragraphs), 8) * 10) ]

_generate_writing_notes(content_plan, final_content) ==
    LET target_words == Get(content_plan, "target_word_count", 1000)
        actual_words == Words(final_content)
    IN  << IF 10 * actual_words < 9 * target_words
           THEN <<"Content is shorter than target", actual_words, target_words>>
           ELSE IF 10 * actual_words > 11 * target_words
           THEN <<"Content is longer than target", actual_words, target_words>>
           ELSE <<"Content length is appropriate", actual_words>> >>
        \o (IF Get(content_plan, "statistics", <<>>) # <<>>
            THEN << <<"Incorporated statistics from research",
                      Len(content_plan.statistics)>> >>
            ELSE <<>>)
        \o (IF Get(content_plan, "quotes", <<>>) # <<>>
            THEN << <<"Referenced expert quotes", Len(content_plan.quotes)>> >>
            ELSE <<>>)
        \o << <<"Content follows planned outline structure">>,
              <<"Tone optimized for audience",
                Get(content_plan, "target_audience", "general")>> >>

\* writer_output, of which the model keeps content, content_plan,
\* word_count, structure_analysis and writing_notes.
writer_output(content_plan, final_content) ==
    [ content            |-> final_content,
      content_plan       |-> content_plan,
      word_count         |-> Words(final_content),
      structure_analysis |-> Writer_analyze_structure(final_content),
      writing_notes      |-> _generate_writing_notes(content_plan, final_content) ]

create_content(research_data, requirements) ==
    LET content_plan == _create_content_plan(research_data, requirements)
        content_sections == _generate_content_sections(content_plan)
    IN  writer_output(content_plan, _assemble_content(content_sections, requirements))

-----------------------------------------------------------------------------
(* The writing stage on its own: create_content on the research and        *)
(* requirements below.                                                     *)

WrRequirements ==
    { [ topic |-> "Remote Work", word_count |-> 300 ],
      [ topic |-> "Remote Work", word_count |-> 1000, tone |-> "Casual",
        content_type |-> "Guide" ],
      [ topic |-> "Remote Work", word_count |-> 2000, tone |-> "Technical",
        content_type |-> "Review" ],
      [ topic |-> "#RemoteWork", word_count |-> 300, tone |-> "Technical" ],
      EmptyDict }

\* Outlines that the research stage does not suggest.
OwnOutlines ==
    { << <<"Background">> >>,
      << <<"Introduction">>, <<"Conclusion">> >>,
      << <<"Introduction">>, <<"Examples">>, <<"Discussion">>, <<"Examples">>,
         <<"Conclusion">> >> }

\* The research a requirements can come with: none of it, what the
\* research stage suggests for it, with and without facts and statistics,
\* and research with an outline of its own.
WrResearch(requirements) ==
    LET topic == Get(requirements, "topic", "")
    IN  { EmptyDict,
          [ topic |-> topic ],
          [ topic |-> topic,
            content_outline |-> _suggest_content_outline(topic, requirements) ],
          [ topic |-> topic,
            content_outline |-> _suggest_content_outline(topic, requirements),
            key_facts |-> <<"f1", "f2", "f3", "f4">>,
            statistics |-> <<"45%", "$1,000", "3 million">> ] }
        \cup { [ topic |-> topic, content_outline |-> o, key_facts |-> <<"f1">> ] :
                 o \in OwnOutlines }

WrInit ==
    /\ OthersIdle("writer")
    /\ wr_pc = "plan"
    /\ wr_requirements \in WrRequirements
    /\ wr_research \in WrResearch(wr_requirements)
    /\ wr_plan = None
    /\ wr_sections = <<>>
    /\ wr_written = 0
    /\ writing_output = None

\* content_plan = self._create_content_plan(research_data, requirements)
WrCreatePlan ==
    /\ UNCHANGED notWr
    /\ wr_pc = "plan"
    /\ wr_plan' = _create_content_plan(wr_research, wr_requirements)
    /\ wr_pc' = "sections"
    /\ UNCHANGED <<wr_requirements, wr_research, wr_sections, wr_written, writing_output>>

\* One turn of the loop of _generate_content_sections.
WrWriteSection ==
    /\ UNCHANGED notWr
    /\ wr_pc = "sections"
    /\ wr_written < Len(wr_plan.outline)
    /\ wr_sections' = WriteInto(wr_sections, wr_plan, wr_plan.outline[wr_written + 1])
    /\ wr_written' = wr_written + 1
    /\ UNCHANGED <<wr_pc, wr_requirements, wr_research, wr_plan, writing_output>>

\* The loop is over: assemble the content and return writer_output.
WrReturn ==
    /\ UNCHANGED notWr
    /\ wr_pc = "sections"
    /\ wr_written = Len(wr_plan.outline)
    /\ writing_output' = writer_output(wr_plan, _assemble_content(wr_sections, wr_requirements))
    /\ wr_pc' = "returned"
    /\ UNCHANGED <<wr_requirements, wr_research, wr_plan, wr_sections, wr_written>>

WrNext == WrCreatePlan \/ WrWriteSection \/ WrReturn

SpecWriter == WrInit /\ [][WrNext]_vars

-----------------------------------------------------------------------------
\* Claims about the writing stage (SpecWriter).

\* The section without the heading line it starts with, if it starts with
\* one.
Headless(section_content) ==
    IF section_content # <<>> /\ section_content[1] \in HeadingMarks
    THEN LET i == Find(section_content, <<NL, NL>>)
         IN  IF i = 0 THEN <<>> ELSE SubSeq(section_content, i + 2, Len(section_content))
    ELSE section_content

\* C18: the content create_content returns begins with the one top-level
\* heading "# {topic}: A Comprehensive Guide" and then holds, for every
\* entry of the outline and in outline order, one level-2 heading with the
\* title of that section and then the body of that section.
C18_EverySectionOnce ==
    writing_output # None =>
        LET plan == writing_output.content_plan
            outline == plan.outline
            body(i) == Headless(_write_section(outline[i], plan,
                                   DictGet(plan.section_word_targets, outline[i], 150)))
            section(i) == <<NL, NL, H2Mark>> \o TitleText(outline[i]) \o <<NL, NL>> \o body(i)
        IN  writing_output.content
              = <<H1Mark, Phrase(Get(wr_requirements, "topic", "")), Colon, SP,
                  Atom("A Comprehensive Guide", 21, 3)>>
                  \o Concat([i \in 1..Len(outline) |-> section(i)])

-----------------------------------------------------------------------------
\* Claims about the searches of the research stage (SpecResearch).

\* C19: conduct_research calls the search tool once for every query, in
\* the order of the queries and asking for 5 results each time, and
\* search_results holds what the calls returned, in that order; after a
\* call that returned the error placeholder the next call is for the next
\* query, and the loop goes on to the last query.
C19_OneSearchPerQuery ==
    /\ Len(searches) = Len(returned)
    /\ Len(searches) <= Len(queries)
    /\ \A i \in 1..Len(searches) :
          searches[i] = [ query |-> queries[i], num_results |-> 5 ]
    /\ search_results = Concat(returned)
    /\ re_pc = "compiled" => Len(searches) = Len(queries)

\* The stage has finished after a search that failed and a later one that
\* did not.
C19_Witness ==
    /\ re_pc = "compiled"
    /\ Len(searches) = 8
    /\ returned[2] = SearchFailed
    /\ returned[3] # SearchFailed
    /\ returned[8] # SearchFailed

\* C20: the query list has at most 8 entries: the six base variants of the
\* topic, then the two audience queries when an audience is given, then one
\* keyword + topic query for each of the first 3 SEO keywords, cut to the
\* first 8.
C20_QueriesInOrder ==
    re_pc \in {"searching", "compiled"} =>
        LET t == re_topic
            a == IF "target_audience" \in DOMAIN re_requirements
                 THEN re_requirements.target_audience ELSE ""
            k == IF "seo_keywords" \in DOMAIN re_requirements
                 THEN re_requirements.seo_keywords ELSE <<>>
            full == << <<t>>, <<t, "definition">>, <<t, "benefits">>, <<t, "challenges">>,
                       <<t, "statistics">>, <<t, "recent developments">> >>
                      \o (IF a # "" THEN << <<t, "for", a>>, <<t, a, "case studies">> >>
                          ELSE <<>>)
                      \o [i \in 1..(IF Len(k) < 3 THEN Len(k) ELSE 3) |-> <<k[i], t>>]
        IN  /\ Len(queries) <= 8
            /\ Len(queries) = (IF Len(full) < 8 THEN Len(full) ELSE 8)
            /\ \A i \in 1..Len(queries) : queries[i] = full[i]

\* The queries for an audience and four keywords: eight of them, the last
\* two for the audience.
C20_Witness ==
    /\ re_pc = "searching"
    /\ Len(Get(re_requirements, "seo_keywords", <<>>)) = 4
    /\ Len(queries) = 8
    /\ queries[8] = <<re_topic, re_requirements.target_audience, "case studies">>

---------------------------------------------------------------------------
(* Absent keys.  The coordinator is run on every subset of the fields of a *)
(* requirements, and create_final_report on plans and agent outputs with   *)
(* keys missing; the four stages are run on their own requirements, which  *)
(* lack fields too.                                                        *)

FullRequirements ==
    [ topic |-> "T", target_audience |-> "devs", word_count |-> 2, tone |-> "Casual",
      seo_keywords |-> <<"k1">>, content_type |-> "Guide" ]

Restrict(d, keys) == [key \in keys |-> d[key]]

DfRequirements == { Restrict(FullRequirements, keys) : keys \in SUBSET DOMAIN FullRequirements }

DfContents == SeqsUpTo(Tokens, 2)

\* The plans create_final_report is called with: the plan of
\* create_content_plan, and plans with keys missing.
PlansGiven(plan) ==
    { plan,
      EmptyDict,
      [ quality_criteria |-> EmptyDict ],
      [ topic |-> plan.topic,
        quality_criteria |->
            [ minimum_word_count10 |-> plan.quality_criteria.minimum_word_count10 ] ] }

AgentOutputsGiven ==
    { EmptyDict,
      [ seo |-> EmptyDict ],
      [ seo |-> [ seo_score |-> 85 ], writing |-> [ content |-> <<"w">> ] ],
      [ research |-> [ topic |-> "T" ],
        writing  |-> [ content |-> <<"w">> ],
        editing  |-> [ edited_content |-> <<"w">> ],
        seo      |-> [ seo_score |-> 70, recommendations |-> << [kind |-> "lists"] >> ] ] }

DfCoInit ==
    /\ OthersIdle("coordinator")
    /\ co_pc = "new"
    /\ co_requirements \in DfRequirements
    /\ co_content \in DfContents
    /\ co_plan = None
    /\ co_validation = None
    /\ co_report = None

\* report = coordinator.create_final_report(content, plan, agent_outputs)
CoReport ==
    /\ UNCHANGED notCo
    /\ co_pc = "validated"
    /\ \E plan \in PlansGiven(co_plan), agent_outputs \in AgentOutputsGiven :
          co_report' = [ plan          |-> plan,
                         agent_outputs |-> agent_outputs,
                         report        |-> create_final_report(co_content, plan,
                                                               agent_outputs) ]
    /\ co_pc' = "reported"
    /\ UNCHANGED <<co_requirements, co_content, co_plan, co_validation>>

DfInit == DfCoInit \/ ReInit \/ WrInit \/ EdInit \/ SeoInit

DfNext == CoNext \/ CoReport \/ ReNext \/ WrNext \/ EdNext \/ SeoNext

SpecDefaults == DfInit /\ [][DfNext]_vars

\* The defaults of the requirements fields.
DocumentedDefaults ==
    [ target_audience |-> "General audience",
      word_count      |-> 1000,
      tone            |-> "Professional",
      content_type    |-> "Blog post",
      seo_keywords    |-> <<>> ]

OrDefault(requirements, field) == Get(requirements, field, DocumentedDefaults[field])

\* The operation under way has a step to take: nothing in it is waiting
\* for a key that is absent.
StepReady ==
    /\ co_pc \in {"new", "planned", "validated"} => ENABLED (CoNext \/ CoReport)
    /\ re_pc = "searching" => Len(returned) <= Len(queries)
    /\ wr_pc = "sections" => wr_written <= Len(wr_plan.outline)
    /\ ed_pc \in {"analyze", "structure", "clarity", "flow", "readability", "fix",
                  "report", "returned", "off"}
    /\ seo_pc \in {"analyze", "title", "headings", "integrate", "structure", "elements",
                   "meta", "final", "output", "returned", "off"}

\* The operation that has returned has returned a result.
ResultReturned ==
    /\ co_pc = "reported" => co_report.report # None
    /\ re_pc = "compiled" => research_output # None
    /\ wr_pc = "returned" => writing_output # None
    /\ ed_pc = "returned" => editing_outputs # <<>>
    /\ seo_pc = "returned" => seo_output # None

---------------------------------------------------------------------------
\* Claims about the recommendations of the SEO analyzer (SpecSEO: the
\* analysis of the original and of the optimized content).

\* The recommendations for the conditions that lower seo_score, in the
\* order of the code.
ForScoreConditions(analysis) ==
    LET missing == analysis.keyword_analysis.missing_keywords
        structure == analysis.content_structure
    IN  (IF missing # <<>> THEN << <<"Include missing keywords", missing>> >> ELSE <<>>)
        \o (IF ~structure.has_headings THEN << <<"Add headings">> >> ELSE <<>>)
        \o (IF structure.word_count < 300 THEN << <<"Increase content length">> >> ELSE <<>>)
        \o (IF structure.avg_paragraph_length10 > 1500
            THEN << <<"Break up long paragraphs">> >> ELSE <<>>)

\* The recommendations for the two conditions that leave seo_score alone.
ForOtherConditions(analysis) ==
    (IF ~analysis.content_structure.has_lists
     THEN << <<"Consider adding lists">> >> ELSE <<>>)
    \o (IF analysis.content_structure.internal_links = 0
        THEN << <<"Add internal links">> >> ELSE <<>>)

\* The analyses a run of optimize_content has made so far.
AnalysesMade ==
    (IF seo_analysis # None THEN {seo_analysis} ELSE {})
        \cup (IF final_analysis # None THEN {final_analysis} ELSE {})

\* C21 as stated: the recommendations of an analysis are one fixed
\* recommendation for each condition that lowers seo_score (a missing
\* keyword, no headings, fewer than 300 words, paragraphs of more than 150
\* words on average) and that holds, and none when none of them holds.
C21_OnlyScoreConditions ==
    \A analysis \in AnalysesMade :
        analysis.recommendations = ForScoreConditions(analysis)

\* C21, amended: the recommendations are one fixed recommendation for each
\* condition that lowers seo_score and that holds, followed by one for
\* content without a list and one for content without a link, two
\* conditions that do not lower seo_score.
C21_ScoreAndOtherConditions ==
    \A analysis \in AnalysesMade :
        analysis.recommendations
            = ForScoreConditions(analysis) \o ForOtherConditions(analysis)

\* An analysis with the full score, none of the four conditions holding,
\* and recommendations all the same.
C21_Witness ==
    /\ final_analysis # None
    /\ final_analysis.seo_score = 100
    /\ ForScoreConditions(final_analysis) = <<>>
    /\ final_analysis.recommendations # <<>>

---------------------------------------------------------------------------
(* The word targets of the writer's content plan, on outlines of one to    *)
(* MaxSections sections and every target word count up to MaxWords.        *)

MaxSections == 6

MaxWords == 600

SectionTitle(i) == <<"Section", ToString(i)>>

\* The outline of n sections with titles of their own, and the same
\* outline with the title of the first section given to the last as well.
TgOutlines ==
    LET own(n) == [i \in 1..n |-> SectionTitle(i)]
    IN  { own(n) : n \in 1..MaxSections }
            \cup { [own(n) EXCEPT ![n] = SectionTitle(1)] : n \in 2..MaxSections }

TgInit ==
    /\ OthersIdle("writer")
    /\ wr_pc = "plan"
    /\ wr_requirements \in { [ topic |-> "T", word_count |-> w ] : w \in 1..MaxWords }
    /\ wr_research \in { [ topic |-> "T", content_outline |-> o ] : o \in TgOutlines }
    /\ wr_plan = None
    /\ wr_sections = <<>>
    /\ wr_written = 0
    /\ writing_output = None

TgNext == WrCreatePlan

SpecTargets == TgInit /\ [][TgNext]_vars

\* word_targets[section] of the plan.
TargetOf(plan, i) == DictGet(plan.section_word_targets, plan.outline[i], 0)

DistinctSections(outline) ==
    \A i, j \in 1..Len(outline) : outline[i] = outline[j] => i = j

\* C22: for every non-empty outline, of one or two sections too, and every
\* total word count W, the target of the first section is 15% of W, the
\* target of the last section 10% of W and the target of every section
\* between them an equal share of the remaining 75% of W, each rounded down
\* and raised to 50 words when it is less.
C22_SharesOfEveryOutline ==
    wr_plan # None =>
        LET n == Len(wr_plan.outline)
            W == wr_plan.target_word_count
        IN  /\ TargetOf(wr_plan, 1) = Max(50, (15 * W) \div 100)
            /\ TargetOf(wr_plan, n) = Max(50, (10 * W) \div 100)
            /\ \A i \in 2..(n - 1) :
                  TargetOf(wr_plan, i) = Max(50, (75 * W) \div (100 * (n - 2)))

\* The sum of the word targets of the sections of the plan.
TargetSum(plan) == Sum([i \in 1..Len(plan.outline) |-> TargetOf(plan, i)])

\* No share of the plan is under the 50 words a target is raised to.
NoTargetRaised(plan) ==
    LET n == Len(plan.outline)
        W == plan.target_word_count
    IN  /\ (10 * W) \div 100 >= 50
        /\ (75 * W) \div (100 * (n - 2)) >= 50

\* C23 as stated: for every outline of at least three distinct sections and
\* every target word count W the word targets of the plan sum to W up to
\* rounding: the sum differs from W by less than the number of sections.
C23_SumWithinRounding ==
    (wr_plan # None /\ Len(wr_plan.outline) >= 3 /\ DistinctSections(wr_plan.outline)) =>
        LET n == Len(wr_plan.outline)
            W == wr_plan.target_word_count
        IN  /\ TargetSum(wr_plan) - W < n
            /\ W - TargetSum(wr_plan) < n

\* C23, amended: for every outline of at least three distinct sections and
\* every target word count W the sum of the word targets is more than W
\* less the number of sections, and it is at most W when no share is under
\* 50 words; a share under 50 words is raised to 50, and the sum is then at
\* least 50 words for each section, whatever W.
C23_SumFromRoundingAndFloor ==
    (wr_plan # None /\ Len(wr_plan.outline) >= 3 /\ DistinctSections(wr_plan.outline)) =>
        LET n == Len(wr_plan.outline)
            W == wr_plan.target_word_count
        IN  /\ W - TargetSum(wr_plan) < n
            /\ NoTargetRaised(wr_plan) => TargetSum(wr_plan) <= W
            /\ TargetSum(wr_plan) >= 50 * n

\* A plan of distinct sections with shares raised to 50 words, whose sum is
\* beyond W by more than rounding.
C23_Witness ==
    /\ wr_plan # None
    /\ Len(wr_plan.outline) >= 3
    /\ DistinctSections(wr_plan.outline)
    /\ ~NoTargetRaised(wr_plan)
    /\ TargetSum(wr_plan) - wr_plan.target_word_count >= Len(wr_plan.outline)

---------------------------------------------------------------------------
\* Claims about the steps of _optimize_content_seo (SpecSEO).  After the
\* title step seo_pc is "headings": seo_content is the content the step
\* was given and optimized_content the content it returned.

\* The title without the part up to its first colon.
AfterFirstColon(title) ==
    LET at == {k \in 1..Len(title) : title[k] = Colon}
        first == CHOOSE k \in at : \A j \in at : k <= j
    IN  Strip(SubSeq(title, first + 1, Len(title)))

\* C24: when the keyword list is not empty and the content has a top-level
\* heading line, the first top-level heading holds the primary keyword
\* after the title step: a heading that held it already is unchanged, to
\* any other the keyword is prepended, in the place of the part before the
\* colon when the title has one; no other line of the content is changed.
C24_TitleHoldsPrimaryKeyword ==
    LET before == Split(seo_content, <<NL>>)
        after  == Split(optimized_content, <<NL>>)
        i      == TitleLine(before)
        title  == Strip(Tail(before[i]))
        kw     == target_keywords[1]
    IN  (seo_pc = "headings" /\ target_keywords # <<>> /\ i # 0) =>
            /\ Len(after) = Len(before)
            /\ \A j \in 1..Len(before) : j # i => after[j] = before[j]
            /\ TitleLine(after) = i
            /\ ContainsKw(after[i], kw)
            /\ ContainsKw(title, kw) => after[i] = before[i]
            /\ ~ContainsKw(title, kw) =>
                  after[i] = <<H1Mark, Phrase(kw), Colon, SP>>
                                 \o (IF HasAtom(title, Colon) THEN AfterFirstColon(title)
                                     ELSE title)

\* The text of a heading line.
HeadingText(line) == Strip(Tail(Strip(line)))

FourPatterns == {"benefits", "advantages", "challenges", "best practices", "future"}

\* The number of keywords that the level-2 headings among the first n
\* lines have taken: a heading takes the keyword offered to it, the next
\* of the list, when it does not hold it.
RECURSIVE Taken(_, _, _)
Taken(lines, keywords, n) ==
    IF n = 0 THEN 0
    ELSE LET before == Taken(lines, keywords, n - 1)
         IN  IF /\ StartsWith(lines[n], {H2Mark})
                /\ before < Len(keywords)
                /\ ~ContainsKw(HeadingText(lines[n]), keywords[before + 1])
             THEN before + 1
             ELSE before

\* What C25 says of the step from the content before to the content after.
HeadingStep(before_content, after_content, keywords) ==
    LET before == Split(before_content, <<NL>>)
        after  == Split(after_content, <<NL>>)
    IN  /\ Len(after) = Len(before)
        /\ \A j \in 1..Len(before) :
              LET offered == Taken(before, keywords, j - 1)
                  text == HeadingText(before[j])
              IN  IF StartsWith(before[j], {H2Mark})
                  THEN /\ StartsWith(after[j], {H2Mark})
                       /\ IF /\ offered < Len(keywords)
                             /\ ~ContainsKw(text, keywords[offered + 1])
                             /\ HasPattern(text, FourPatterns)
                          THEN /\ ContainsKw(HeadingText(after[j]), keywords[offered + 1])
                               /\ HeadingText(after[j]) # text
                          ELSE HeadingText(after[j]) = text
                  ELSE after[j] = before[j]

\* C25: the heading step goes through the level-2 headings from the top
\* and offers the keywords in the order of the list, a keyword being taken
\* by one heading at most: a heading is rewritten only when it does not hold
\* the keyword offered and matches one of the four patterns, and then holds
\* that keyword; every other heading keeps its text, every other line is
\* unchanged, and there are as many level-2 headings as before.
C25_HeadingsTakeKeywordsInOrder ==
    [][(seo_pc = "headings" /\ target_keywords # <<>>) =>
          HeadingStep(optimized_content, optimized_content', target_keywords)]_vars

\* The article after the heading step with three keywords: the first went
\* to the benefits heading, the second was taken by the plain heading,
\* which kept its text, and the third went to the challenges heading.
C25_Witness ==
    LET lines == Split(optimized_content, <<NL>>)
        Line(l) == \E j \in 1..Len(lines) : lines[j] = l
    IN  /\ seo_pc = "integrate"
        /\ seo_content = Article
        /\ Len(target_keywords) = 3
        /\ Line(<<H2Mark>> \o RewrittenHeading(<<Marked("Benefits", 8, 1, "pattern", "benefits")>>,
                                                target_keywords[1]))
        /\ Line(<<H2Mark, Atom("Background", 10, 1)>>)
        /\ Line(<<H2Mark>> \o RewrittenHeading(<<Marked("Challenges", 10, 1, "pattern", "challenges")>>,
                                                target_keywords[3]))

---------------------------------------------------------------------------
\* Claims about what validate_content_quality can return (SpecDefaults: the
\* coordinator on contents of up to two words, with every structure flag
\* on and off, and the reports made of them).

\* The word count of the content lies in the range of the plan, 900 to
\* 1100 for a plan without criteria.
WordsInRange(content, plan) ==
    LET criteria == Get(plan, "quality_criteria", EmptyDict)
    IN  /\ Get(criteria, "minimum_word_count10", 9000) <= 10 * WordCount(content)
        /\ 10 * WordCount(content) <= Get(criteria, "maximum_word_count10", 11000)

\* The last line of the report's recommendations, chosen by overall_score.
BandOf(report) == report.recommendations[Len(report.recommendations)].kind

\* C26: only the word-count check of validate_content_quality can fail.
\* overall_score is 50 or 100, passed is true exactly when the word count
\* lies within minimum_word_count and maximum_word_count, content of the
\* same length gives the same overall_score and passed whatever its
\* has_introduction, has_conclusion and has_headings, and the final report
\* never takes the band for scores from 80 up to 90, 'minor improvements'.
C26_OnlyWordCountCanFail ==
    /\ co_validation # None =>
          /\ co_validation.overall_score \in {50, 100}
          /\ co_validation.passed <=> WordsInRange(co_content, co_plan)
          /\ co_validation.overall_score = 100 <=> WordsInRange(co_content, co_plan)
          /\ \A other \in DfContents :
                Len(other) = Len(co_content) =>
                    LET v == validate_content_quality(other, co_plan)
                    IN  /\ v.overall_score = co_validation.overall_score
                        /\ v.passed = co_validation.passed
    /\ co_pc = "reported" =>
          LET v == co_report.report.quality_assessment
          IN  /\ v.overall_score \in {50, 100}
              /\ v.passed <=> WordsInRange(co_content, co_report.plan)
              /\ BandOf(co_report.report)
                    = IF v.passed THEN "featured" ELSE "significant improvements"

\* A validation that passed on content with no introduction, no conclusion
\* and no heading, and the report made of it.
C26_Witness ==
    /\ co_pc = "reported"
    /\ co_report.plan = co_plan
    /\ co_validation.passed
    /\ co_validation.checks.structure
          = [has_introduction |-> FALSE, has_conclusion |-> FALSE, has_headings |-> FALSE]
    /\ BandOf(co_report.report) = "featured"

---------------------------------------------------------------------------
\* Claims about the keyword queries of the research stage (SpecResearch).

\* The places of the query list that hold a keyword + topic query.
KeywordQueries ==
    LET keywords == Get(re_requirements, "seo_keywords", <<>>)
    IN  { i \in 1..Len(queries) :
            \E k \in 1..Len(keywords) : queries[i] = <<keywords[k], re_topic>> }

\* C27: the query list holds at most two keyword + topic queries, and none
\* when a target_audience that is not empty is given (the six base queries
\* and the two audience queries are the 8 the list is cut to); the query of
\* the third SEO keyword is never in the list.
C27_ThirdKeywordNeverSearched ==
    re_pc \in {"searching", "compiled"} =>
        LET keywords == Get(re_requirements, "seo_keywords", <<>>)
        IN  /\ Cardinality(KeywordQueries) <= 2
            /\ Get(re_requirements, "target_audience", "") # "" => KeywordQueries = {}
            /\ Len(keywords) >= 3 =>
                  /\ \A i \in 1..Len(queries) : queries[i] # <<keywords[3], re_topic>>
                  /\ \A i \in 1..Len(searches) :
                        searches[i].query # <<keywords[3], re_topic>>

\* Research done for three keywords and no audience: the queries of the
\* first two keywords were searched, the last of the eight searches.
C27_Witness ==
    /\ re_pc = "compiled"
    /\ "target_audience" \notin DOMAIN re_requirements
    /\ Len(Get(re_requirements, "seo_keywords", <<>>)) = 3
    /\ Len(searches) = 8
    /\ searches[7].query = <<re_requirements.seo_keywords[1], re_topic>>
    /\ searches[8].query = <<re_requirements.seo_keywords[2], re_topic>>

---------------------------------------------------------------------------
(* The driver's progress counter (Spec).                                   *)

\* The pcs at which the five operations with a step of their own are called,
\* in the order of the calls, and the pcs of the lines that announce them.
SteppedPcs == <<"plan", "research", "writing", "editing", "seo">>

BeginPcs ==
    <<"plan_begin", "research_begin", "writing_begin", "editing_begin", "seo_begin">>

\* C28: current_step is always in 0..5.  While the k-th operation (plan,
\* research, writing, editing, SEO) is being called current_step is k, and
\* it was raised to k, from k - 1, by the step just before that call, the
\* calls made so far being the first k - 1 operations; the final report is
\* built while it is 5; between runs, after a run that completed and after a
\* run that failed at any stage (the constructors included), it is 0.
C28_StepCountsTheStages ==
    /\ current_step \in 0..5
    /\ \A k \in 1..5 :
          /\ pc = BeginPcs[k] => current_step = k - 1
          /\ pc = SteppedPcs[k] =>
                /\ current_step = k
                /\ Len(calls) = k - 1
                /\ OperationAt[pc] = Operations[k]
    /\ pc \in {"report_begin", "report", "store"} => current_step = 5
    /\ pc = "report" => Len(calls) = 5 /\ OperationAt[pc] = Operations[6]
    /\ pc \in {"idle", "construct"} => current_step = 0

\* A run failed, in an operation or in the constructors, after an earlier run
\* had completed: the step is back at 0.
C28_Witness ==
    /\ pc = "idle"
    /\ raised_in # ""
    /\ pipeline_results # None
    /\ current_step = 0

---------------------------------------------------------------------------
(* The stops of the edited content (SpecEditor).                           *)

\* The outputs of edit_content whose input was not empty.
OutputsOfContent ==
    {i \in 1..Len(editing_outputs) : editing_outputs[i].original_content # <<>>}

StopsOf(text) == {i \in 1..Len(text) : text[i] = Stop}

EndsWithStop(text) == text # <<>> /\ text[Len(text)] = Stop

\* Every stop of the text has one of `followers` right after it.
StopsFollowedBy(text, followers) ==
    \A i \in StopsOf(text) : i < Len(text) /\ text[i + 1] \in followers

Unended(text) ==
    \E k \in 1..Len(_identify_issues(text)) :
        _identify_issues(text)[k].issue = "Content doesn't end with proper punctuation"

\* C29 as stated: the edited content of a non-empty input never ends with a
\* stop, every stop in it is followed by a space (so no paragraph break is
\* left after a stop), and when the input ended with a stop the validator
\* reports that the edited content does not end with proper punctuation.
C29_EveryStopThenSpace ==
    \A i \in OutputsOfContent :
        LET o == editing_outputs[i]
        IN  /\ ~EndsWithStop(o.edited_content)
            /\ StopsFollowedBy(o.edited_content, {SP})
            /\ EndsWithStop(o.original_content) => Unended(o.edited_content)

\* C29, amended: the edited content of a non-empty input never ends with a
\* stop, and every stop in it is followed by a space or, where the text after
\* the stop began with a comma, by that comma (the ' ,' fix takes the space
\* away), so no paragraph break is left after a stop; the validator reports
\* the edited content as not ending with proper punctuation unless it ends
\* with '!' or '?', which is the case of an input that ended with a stop after
\* a word.
C29_EveryStopThenSpaceOrComma ==
    \A i \in OutputsOfContent :
        LET o == editing_outputs[i]
            e == o.edited_content
        IN  /\ ~EndsWithStop(e)
            /\ StopsFollowedBy(e, {SP, Comma})
            /\ \A j \in StopsOf(e) : e[j + 1] = SP => j + 2 <= Len(e) /\ e[j + 2] # NL
            /\ Unended(e) <=> (e = <<>> \/ e[Len(e)] \notin {Question, Exclaim})
            /\ o.final_quality_score \in
                  {f.quality_score : f \in ContentValidator_run(e)}

\* An input with a paragraph break after a stop, a stop before a comma and a
\* stop at its end has been edited.
C29_Witness ==
    \E i \in OutputsOfContent :
        LET o == editing_outputs[i]
        IN  /\ EndsWithStop(o.original_content)
            /\ \E j \in StopsOf(o.original_content) :
                  /\ j + 2 <= Len(o.original_content)
                  /\ SubSeq(o.original_content, j + 1, j + 2) = <<NL, NL>>
            /\ \E j \in StopsOf(o.edited_content) :
                  j < Len(o.edited_content) /\ o.edited_content[j + 1] = Comma
            /\ \E j \in StopsOf(o.edited_content) :
                  j < Len(o.edited_content) /\ o.edited_content[j + 1] = SP

---------------------------------------------------------------------------
(* The SEO score before and after the optimization (SpecSEO).              *)

\* The keywords the analysis reports as missing.
MissingIn(analysis) ==
    {analysis.keyword_analysis.missing_keywords[i] :
        i \in 1..Len(analysis.keyword_analysis.missing_keywords)}

\* C30: optimize_content never makes the SEO score worse: the seo_score it
\* returns, the analyzer's score of optimized_content, is at least
\* seo_analysis.seo_score, the score of the original content, and no keyword
\* the original content held is among the final analysis's missing_keywords.
C30_ScoreNeverWorse ==
    seo_pc = "returned" =>
        /\ seo_output.seo_score >= seo_output.seo_analysis.seo_score
        /\ seo_output.seo_score = seo_output.final_seo_analysis.seo_score
        /\ MissingIn(seo_output.final_seo_analysis) \subseteq MissingIn(seo_output.seo_analysis)

====
